---- MODULE Spec2Model ----
(***************************************************************************)
(* Whiteboard interaction engine of whiteboard-note: camera, pointer       *)
(* gestures (pan / drag / resize of notes and frames), frame membership,   *)
(* z-order and the debounced persistence queue.                            *)
(*                                                                         *)
(* Numbers.  JavaScript numbers are modelled as exact rationals            *)
(* [n |-> numerator, d |-> denominator] in lowest terms with d > 0, so     *)
(* that two numbers are equal iff their records are equal.  Rounding of    *)
(* IEEE doubles is not modelled.                                           *)
(*                                                                         *)
(* React scheduling.  A state update made by a handler is applied to the   *)
(* component state at once; the refs the Whiteboard reads (itemsRef,       *)
(* framesRef) and the values captured by the rendered handlers (item,      *)
(* frame, maxZ, maxFrameZ) follow at the next render.  Updates made in     *)
(* discrete events (press, release, key) are rendered before the handler   *)
(* returns control to the event loop; updates made in pointer-move         *)
(* listeners are rendered by a later task (action Render).                 *)
(***************************************************************************)
EXTENDS Integers, Sequences, FiniteSets, TLC

\* ------------------------------------------------------------------ bounds
Grid == 200             \* pointer events land on (0,0), (Grid,0) or (Grid,Grid)
MaxWheel == 1           \* |deltaY| of a wheel event, in octaves
MaxEvents == 3          \* input events followed by a specification that counts them
MaxWorld == 800         \* entity coordinates are followed while |v| <= MaxWorld
MaxBumps == 2           \* z is followed up to (largest initial z) + MaxBumps
MaxBoards == 2          \* boards that exist at the same time
RectLeft == 0           \* container.getBoundingClientRect().left
RectTop == 0            \* container.getBoundingClientRect().top
ViewportW == 960        \* container.getBoundingClientRect().width
MaxBatch == 2           \* updates in one batch
ViewportH == 480        \* container.getBoundingClientRect().height
MaxCreated == 2         \* notes, and frames, on a board that entities are created on
TickMs == 125           \* time that passes in one step of the clock, in ms

\* --------------------------------------------------------------- constants
MIN_W == 320
MIN_H == 220
NullId == 0             \* the null of `string | null` ids
NoteZBase == 1000000    \* zIndex: item.z + 1000000
FrameZBase == 2000000   \* zIndex: frame.z + 2000000
SaveDelay == 250

\* --------------------------------------------------------------- rationals
Abs(a) == IF a < 0 THEN -a ELSE a

RECURSIVE Gcd(_, _)
Gcd(a, b) == IF b = 0 THEN a ELSE Gcd(b, a % b)

Rat(n, d) ==
    LET s == IF d < 0 THEN -1 ELSE 1
        g == Gcd(Abs(n), Abs(d))
    IN  [n |-> (s * n) \div g, d |-> (s * d) \div g]

R(i) == [n |-> i, d |-> 1]

RAdd(a, b) == Rat(a.n * b.d + b.n * a.d, a.d * b.d)
RSub(a, b) == Rat(a.n * b.d - b.n * a.d, a.d * b.d)
RMul(a, b) == Rat(a.n * b.n, a.d * b.d)
RDiv(a, b) == Rat(a.n * b.d, a.d * b.n)
RLe(a, b) == a.n * b.d <= b.n * a.d
RLt(a, b) == a.n * b.d < b.n * a.d
RMax(a, b) == IF RLt(a, b) THEN b ELSE a
RMin(a, b) == IF RLt(b, a) THEN b ELSE a
RHalf(a) == RDiv(a, R(2))

\* ------------------------------------------------------------------- state
VARIABLES
    camera,        \* cameraRef.current: [tx, ty, scale]
    rafPending,    \* applyRafIdRef.current != null
    rafQueue,      \* animation-frame callbacks the browser has been asked to run
    rendered,      \* the transform last written to worldRef's style
    isSpaceDown,   \* pan-enable key held
    pan,           \* PanState | Null
    drag,          \* DragState | Null       (note items)
    resize,        \* ResizeState | Null     (note items)
    frameDrag,     \* DragState | Null       (frames)
    frameResize,   \* ResizeState | Null     (frames)
    down,          \* pointers currently pressed
    keyboard,      \* Space physically held; focus inside an editable element
    items,         \* App state whiteboardItems
    itemsRef,      \* Whiteboard's itemsRef.current = items of the last render
    frames,        \* App state frames
    framesRef,     \* Whiteboard's framesRef.current = frames of the last render
    notes,         \* App state notes: [id, frameId]
    pending,       \* pendingWhiteboardSavesRef.current: sequence of items, one per id
    saveTimer,     \* whiteboardSaveTimerRef.current != null
    saveTimers,    \* the timers setTimeout(flushWhiteboardSaves, 250) started that have
                   \* neither fired nor been cleared: ms left of each, oldest first
    storeItems,    \* persisted whiteboard items of the active board
    storeFrames,   \* persisted frames of the active board
    resolved,      \* result of the last frame-membership query
    liveNotes,     \* result of the last getLiveNotesInFrame call
    activeBoardId, \* App state activeBoardId = activeBoardIdRef.current
    boards,        \* persisted list of board ids, getBoards()
    shelved,       \* persisted notes / items / frames of the boards that are not active
    storeNotes,    \* persisted notes of the active board
    uncaught,      \* an exception has left a handler
    calls,         \* calls the step taken last made to onAssignNoteToFrame and
                   \* batchUpsertWhiteboardItems
    ev             \* the input event handled last

camVars == <<camera, rafPending, rafQueue, rendered>>
gestVars == <<isSpaceDown, pan, drag, resize, frameDrag, frameResize, down, keyboard>>
entVars == <<items, itemsRef, frames, framesRef, notes>>
saveVars == <<pending, saveTimer, saveTimers, storeItems, storeFrames>>
queryVars == <<resolved, liveNotes>>
hostVars == <<activeBoardId, boards, shelved, storeNotes, uncaught>>
vars == <<camVars, gestVars, entVars, saveVars, queryVars, hostVars, calls, ev>>

Null == [kind |-> "null"]

Points == {<<0, 0>>, <<Grid, 0>>, <<Grid, Grid>>}
Dirs == {"n", "s", "e", "w", "ne", "nw", "se", "sw"}
DirHas(dir, c) == \E k \in 1 .. Len(dir) : SubSeq(dir, k, k) = c

BoardIds == 1 .. MaxBoards

\* what the getters return for a board without persisted data
EmptyData == [notes |-> <<>>, items |-> <<>>, frames |-> <<>>]

\* The record of the event handled last.  left is the number of further input
\* events a behaviour is followed for, or -1 where the specification bounds
\* the behaviours in another way.
Event(type, p, x, y, target, dir, k) ==
    [type |-> type, pointerId |-> p, x |-> x, y |-> y, target |-> target,
     dir |-> dir, deltaY |-> k, left |-> ev.left, clock |-> ev.clock]

\* an input event is delivered
Handle(type, p, x, y, target, dir, k) ==
    /\ ev.left # 0
    /\ ev' = [Event(type, p, x, y, target, dir, k) EXCEPT
                 !.left = IF ev.left > 0 THEN ev.left - 1 ELSE ev.left]

\* a step that calls neither onAssignNoteToFrame nor the batched write and
\* leaves boards and persisted notes alone
Quiet == calls' = <<>> /\ UNCHANGED hostVars

\* ------------------------------------------------------------------ camera
MIN_SCALE == Rat(1, 4)
MAX_SCALE == Rat(5, 2)

\* clamp that forgets the upper limit
clampNoUpper(v, min, max) == RMax(min, v)

clamp(v, min, max) == RMax(min, RMin(max, v))

RECURSIVE Pow2(_)
Pow2(k) == IF k = 0 THEN R(1)
           ELSE IF k > 0 THEN RMul(R(2), Pow2(k - 1))
           ELSE RDiv(Pow2(k + 1), R(2))

\* Math.pow(1.0015, -deltaY), with deltaY given in octaves: one octave is the
\* deltaY for which 1.0015^deltaY = 2.
zoomFactor(deltaY) == Pow2(-deltaY)

screenToWorld(sx, sy, cam) ==
    [x |-> RDiv(RSub(sx, cam.tx), cam.scale), y |-> RDiv(RSub(sy, cam.ty), cam.scale)]

worldToScreen(wx, wy, cam) ==
    [x |-> RAdd(RMul(wx, cam.scale), cam.tx), y |-> RAdd(RMul(wy, cam.scale), cam.ty)]

\* applyCamera that requests a callback on every call
applyCameraNoGuard(next) ==
    /\ camera' = next
    /\ rafPending' = TRUE
    /\ rafQueue' = rafQueue + 1
    /\ UNCHANGED rendered

applyCamera(next) ==
    /\ camera' = next
    /\ rafPending' = TRUE
    /\ rafQueue' = IF rafPending THEN rafQueue ELSE rafQueue + 1
    /\ UNCHANGED rendered

RafCallback ==
    /\ rafQueue > 0
    /\ rafQueue' = rafQueue - 1
    /\ rafPending' = FALSE
    /\ rendered' = camera
    /\ ev' = Event("raf", 0, 0, 0, NullId, "", 0)
    /\ Quiet
    /\ UNCHANGED <<camera, gestVars, entVars, saveVars, queryVars>>

nextScaleOf(cam, deltaY) == clamp(RMul(cam.scale, zoomFactor(deltaY)), MIN_SCALE, MAX_SCALE)

\* zoom that changes the scale and leaves the translate alone
zoomAtKeepTranslate(cam, mouseX, mouseY, deltaY) ==
    [cam EXCEPT !.scale = nextScaleOf(cam, deltaY)]

zoomAt(cam, mouseX, mouseY, deltaY) ==
    LET oldScale == cam.scale
        nextScale == nextScaleOf(cam, deltaY)
        worldX == RDiv(RSub(mouseX, cam.tx), oldScale)
        worldY == RDiv(RSub(mouseY, cam.ty), oldScale)
    IN  [tx |-> RSub(mouseX, RMul(worldX, nextScale)),
         ty |-> RSub(mouseY, RMul(worldY, nextScale)),
         scale |-> nextScale]

\* wheel handler without the early return at the scale limit
HandleWheelAlwaysApply(cx, cy, deltaY, metaKey) ==
    LET mouseX == R(cx - RectLeft)
        mouseY == R(cy - RectTop)
        next == zoomAt(camera, mouseX, mouseY, deltaY)
    IN  /\ IF metaKey THEN Handle("wheel", 0, cx, cy, NullId, "", deltaY)
                      ELSE Handle("scroll", 0, 0, 0, NullId, "", 0)
        /\ IF ~metaKey THEN UNCHANGED camVars ELSE applyCamera(next)
        /\ Quiet
        /\ UNCHANGED <<gestVars, entVars, saveVars, queryVars>>

HandleWheel(cx, cy, deltaY, metaKey) ==
    LET mouseX == R(cx - RectLeft)
        mouseY == R(cy - RectTop)
        next == zoomAt(camera, mouseX, mouseY, deltaY)
    IN  /\ IF metaKey THEN Handle("wheel", 0, cx, cy, NullId, "", deltaY)
                      ELSE Handle("scroll", 0, 0, 0, NullId, "", 0)
        /\ IF ~metaKey \/ next.scale = camera.scale
           THEN UNCHANGED camVars
           ELSE applyCamera(next)
        /\ Quiet
        /\ UNCHANGED <<gestVars, entVars, saveVars, queryVars>>


centerOn(cam, e) ==
    LET worldCenterX == RAdd(e.x, RHalf(e.width))
        worldCenterY == RAdd(e.y, RHalf(e.height))
    IN  [cam EXCEPT !.tx = RSub(RHalf(R(ViewportW)), RMul(worldCenterX, cam.scale)),
                    !.ty = RSub(RHalf(R(ViewportH)), RMul(worldCenterY, cam.scale))]

\* ---------------------------------------------------------------- entities
find(seq, id) ==
    IF \E k \in 1 .. Len(seq) : seq[k].id = id
    THEN CHOOSE k \in 1 .. Len(seq) :
             seq[k].id = id /\ \A j \in 1 .. k - 1 : seq[j].id # id
    ELSE 0

\* prev.map((i) => (i.id === item.id ? item : i)), or [...prev, item]
upsert(prev, e) ==
    IF find(prev, e.id) > 0
    THEN [k \in 1 .. Len(prev) |-> IF prev[k].id = e.id THEN e ELSE prev[k]]
    ELSE Append(prev, e)

\* Map.prototype.set that keeps every version it was given
mapSetAppend(m, e) == Append(m, e)

\* Map.prototype.set on a map kept as a sequence in insertion order
mapSet(m, e) ==
    IF find(m, e.id) > 0 THEN [m EXCEPT ![find(m, e.id)] = e] ELSE Append(m, e)

\* the queued state updaters applied in turn
RECURSIVE upsertAll(_, _)
upsertAll(prev, updates) ==
    IF updates = <<>> THEN prev
    ELSE upsertAll(upsert(prev, Head(updates)), Tail(updates))

RECURSIVE mapSetAll(_, _)
mapSetAll(m, updates) ==
    IF updates = <<>> THEN m
    ELSE mapSetAll(mapSet(m, Head(updates)), Tail(updates))

\* window.clearTimeout(whiteboardSaveTimerRef.current): the handle, when
\* there is one, is that of the timer started last
clearTimeout(timers) ==
    IF saveTimer /\ timers # <<>> THEN SubSeq(timers, 1, Len(timers) - 1) ELSE timers

\* window.setTimeout(flushWhiteboardSaves, 250)
setTimeout(timers) == Append(timers, SaveDelay)

\* a debounce that starts the delay anew on every enqueue
handleUpdateWhiteboardItemRestart(updates) ==
    /\ items' = upsertAll(items, updates)
    /\ pending' = mapSetAll(pending, updates)
    /\ saveTimer' = (saveTimer \/ updates # <<>>)
    /\ saveTimers' = IF updates = <<>> THEN saveTimers
                     ELSE setTimeout(clearTimeout(saveTimers))
    /\ UNCHANGED storeItems

\* handleUpdateWhiteboardItem for each update in turn: setWhiteboardItems
\* and scheduleWhiteboardSave
handleUpdateWhiteboardItem(updates) ==
    /\ items' = upsertAll(items, updates)
    /\ pending' = mapSetAll(pending, updates)
    /\ saveTimer' = (saveTimer \/ updates # <<>>)
    /\ saveTimers' = IF saveTimer \/ updates = <<>> THEN saveTimers
                     ELSE setTimeout(saveTimers)
    /\ UNCHANGED storeItems

\* handleUpdateFrame for each update in turn: setFrames and saveFrames
handleUpdateFrame(updates) ==
    /\ frames' = upsertAll(frames, updates)
    /\ storeFrames' = IF updates = <<>> THEN storeFrames ELSE frames'

\* assignment that leaves the notes as they are
handleAssignNoteToFrameDropped(prevNotes, noteId, frameId) == prevNotes

\* handleAssignNoteToFrame
handleAssignNoteToFrame(prevNotes, noteId, frameId) ==
    [k \in 1 .. Len(prevNotes) |->
        IF prevNotes[k].id # noteId THEN prevNotes[k]
        ELSE IF prevNotes[k].frameId = frameId THEN prevNotes[k]
        ELSE [prevNotes[k] EXCEPT !.frameId = frameId]]

\* updateNoteInStorage on the persisted notes
updateNoteInStorage(stored, updatedNote) ==
    IF find(stored, updatedNote.id) > 0
    THEN [stored EXCEPT ![find(stored, updatedNote.id)] = updatedNote]
    ELSE <<updatedNote>> \o stored

\* the persisted notes after handleAssignNoteToFrame's updater has run on
\* prevNotes
assignInStorage(stored, prevNotes, noteId, frameId) ==
    LET k == find(prevNotes, noteId)
    IN  IF k = 0 \/ prevNotes[k].frameId = frameId THEN stored
        ELSE updateNoteInStorage(stored, [prevNotes[k] EXCEPT !.frameId = frameId])

RECURSIVE reduceMaxZ(_, _)
reduceMaxZ(seq, acc) ==
    IF seq = <<>> THEN acc
    ELSE reduceMaxZ(Tail(seq), IF Head(seq).z > acc THEN Head(seq).z ELSE acc)

\* largest z over notes and frames together: one counter for both
maxZShared(its) ==
    IF Len(its) = 0 THEN 0 ELSE reduceMaxZ(its \o framesRef, its[1].z)

maxZ(its) == IF Len(its) = 0 THEN 0 ELSE reduceMaxZ(its, its[1].z)
maxFrameZ(frs) == IF Len(frs) = 0 THEN 0 ELSE reduceMaxZ(frs, frs[1].z)

\* bump that reuses the largest z instead of going one above it
bumpToFrontAtMax(item) ==
    LET nextZ == maxZ(itemsRef)
    IN  IF item.z = nextZ THEN <<>> ELSE <<[item EXCEPT !.z = nextZ]>>

\* the updates bumpToFront(item) passes to onUpdateItem, from the values of
\* the last render
bumpToFront(item) ==
    LET nextZ == maxZ(itemsRef) + 1
    IN  IF item.z = nextZ THEN <<>> ELSE <<[item EXCEPT !.z = nextZ]>>

bumpFrameToFront(frame) ==
    LET nextZ == maxFrameZ(framesRef) + 1
    IN  IF frame.z = nextZ THEN <<>> ELSE <<[frame EXCEPT !.z = nextZ]>>

\* ------------------------------------------------------- frame membership
\* containment with exclusive bounds
isPointInRectStrict(px, py, rect) ==
    /\ RLt(rect.x, px) /\ RLt(px, RAdd(rect.x, rect.width))
    /\ RLt(rect.y, py) /\ RLt(py, RAdd(rect.y, rect.height))

isPointInRect(px, py, rect) ==
    /\ RLe(rect.x, px) /\ RLe(px, RAdd(rect.x, rect.width))
    /\ RLe(rect.y, py) /\ RLe(py, RAdd(rect.y, rect.height))

area(f) == RMul(f.width, f.height)

\* Array.prototype.sort((a, b) => a.area - b.area) is stable: insertion sort
\* that keeps equal areas in input order
RECURSIVE insertByArea(_, _)
insertByArea(sorted, c) ==
    IF sorted = <<>> THEN <<c>>
    ELSE IF RLt(c.area, Head(sorted).area) THEN <<c>> \o sorted
    ELSE <<Head(sorted)>> \o insertByArea(Tail(sorted), c)

RECURSIVE sortByArea(_)
sortByArea(cands) ==
    IF cands = <<>> THEN <<>>
    ELSE insertByArea(sortByArea(SubSeq(cands, 1, Len(cands) - 1)), cands[Len(cands)])

\* pick that takes the first containing frame in collection order
pickFirstFrameForPoint(frs, px, py) ==
    LET hit == SelectSeq(frs, LAMBDA f : isPointInRect(px, py, f))
    IN  IF Len(hit) = 0 THEN Null ELSE hit[1]

pickBestFrameForPoint(frs, px, py) ==
    LET hit == SelectSeq(frs, LAMBDA f : isPointInRect(px, py, f))
        candidates == [k \in 1 .. Len(hit) |-> [frame |-> hit[k], area |-> area(hit[k])]]
    IN  IF Len(candidates) = 0 THEN Null ELSE sortByArea(candidates)[1].frame

\* membership that takes the last of the smallest containing frames
getLiveFrameIdForItemLastTie(item, frs) ==
    LET cx == RAdd(item.x, RHalf(item.width))
        cy == RAdd(item.y, RHalf(item.height))
        rev == [k \in 1 .. Len(frs) |-> frs[Len(frs) + 1 - k]]
        best == pickBestFrameForPoint(rev, cx, cy)
    IN  IF best = Null THEN NullId ELSE best.id

getLiveFrameIdForItem(item, frs) ==
    LET cx == RAdd(item.x, RHalf(item.width))
        cy == RAdd(item.y, RHalf(item.height))
        best == pickBestFrameForPoint(frs, cx, cy)
    IN  IF best = Null THEN NullId ELSE best.id

\* drag-end resolver whose containment test leaves the borders out
findContainingFrameIdForItemStrict(item) ==
    LET cx == RAdd(item.x, RHalf(item.width))
        cy == RAdd(item.y, RHalf(item.height))
        hit == SelectSeq(framesRef, LAMBDA f : isPointInRectStrict(cx, cy, f))
        candidates == [k \in 1 .. Len(hit) |-> [id |-> hit[k].id, area |-> area(hit[k])]]
    IN  IF Len(candidates) = 0 THEN NullId ELSE sortByArea(candidates)[1].id

findContainingFrameIdForItem(item) ==
    LET cx == RAdd(item.x, RHalf(item.width))
        cy == RAdd(item.y, RHalf(item.height))
        hit == SelectSeq(framesRef, LAMBDA f :
                   /\ RLe(f.x, cx) /\ RLe(cx, RAdd(f.x, f.width))
                   /\ RLe(f.y, cy) /\ RLe(cy, RAdd(f.y, f.height)))
        candidates == [k \in 1 .. Len(hit) |-> [id |-> hit[k].id, area |-> area(hit[k])]]
    IN  IF Len(candidates) = 0 THEN NullId ELSE sortByArea(candidates)[1].id


\* ---------------------------------------------------------------- gestures
InWorldWindow(e) ==
    \A v \in {e.x, e.y, e.width, e.height} : Abs(v.n) <= MaxWorld * v.d

\* drag move that adds the delta to the item's current position
dragMoveIncremental(p, cx, cy) ==
    IF drag = Null \/ p # drag.pointerId THEN <<>>
    ELSE LET dx == cx - drag.startPointerX
             dy == cy - drag.startPointerY
             scale == camera.scale
             dxWorld == RDiv(R(dx), scale)
             dyWorld == RDiv(R(dy), scale)
             k == find(itemsRef, drag.itemId)
         IN  IF k = 0 THEN <<>>
             ELSE <<[itemsRef[k] EXCEPT !.x = RAdd(itemsRef[k].x, dxWorld),
                                        !.y = RAdd(itemsRef[k].y, dyWorld)]>>

\* drag effect's handlePointerMove: the updates it passes to onUpdateItem
dragMove(p, cx, cy) ==
    IF drag = Null \/ p # drag.pointerId THEN <<>>
    ELSE LET dx == cx - drag.startPointerX
             dy == cy - drag.startPointerY
             scale == camera.scale
             dxWorld == RDiv(R(dx), scale)
             dyWorld == RDiv(R(dy), scale)
             k == find(itemsRef, drag.itemId)
         IN  IF k = 0 THEN <<>>
             ELSE <<[itemsRef[k] EXCEPT !.x = RAdd(drag.startX, dxWorld),
                                        !.y = RAdd(drag.startY, dyWorld)]>>

\* frame drag move that follows any pointer
frameDragMoveAnyPointer(p, cx, cy) ==
    IF frameDrag = Null THEN <<>>
    ELSE LET dx == cx - frameDrag.startPointerX
             dy == cy - frameDrag.startPointerY
             scale == camera.scale
             dxWorld == RDiv(R(dx), scale)
             dyWorld == RDiv(R(dy), scale)
             k == find(framesRef, frameDrag.itemId)
         IN  IF k = 0 THEN <<>>
             ELSE <<[framesRef[k] EXCEPT !.x = RAdd(frameDrag.startX, dxWorld),
                                         !.y = RAdd(frameDrag.startY, dyWorld)]>>

\* frameDrag effect's handlePointerMove: the updates it passes to onUpdateFrame
frameDragMove(p, cx, cy) ==
    IF frameDrag = Null \/ p # frameDrag.pointerId THEN <<>>
    ELSE LET dx == cx - frameDrag.startPointerX
             dy == cy - frameDrag.startPointerY
             scale == camera.scale
             dxWorld == RDiv(R(dx), scale)
             dyWorld == RDiv(R(dy), scale)
             k == find(framesRef, frameDrag.itemId)
         IN  IF k = 0 THEN <<>>
             ELSE <<[framesRef[k] EXCEPT !.x = RAdd(frameDrag.startX, dxWorld),
                                         !.y = RAdd(frameDrag.startY, dyWorld)]>>

\* resize rectangle without the minimum size
resizeRectNoMin(rs, dxWorld, dyWorld) ==
    LET dir == rs.dir
        eW == IF DirHas(dir, "e") THEN RAdd(rs.startW, dxWorld) ELSE rs.startW
        sH == IF DirHas(dir, "s") THEN RAdd(rs.startH, dyWorld) ELSE rs.startH
        nextW == IF DirHas(dir, "w") THEN RSub(rs.startW, dxWorld) ELSE eW
        nextX == IF DirHas(dir, "w") THEN RAdd(rs.startX, RSub(rs.startW, nextW)) ELSE rs.startX
        nextH == IF DirHas(dir, "n") THEN RSub(rs.startH, dyWorld) ELSE sH
        nextY == IF DirHas(dir, "n") THEN RAdd(rs.startY, RSub(rs.startH, nextH)) ELSE rs.startY
    IN  [x |-> nextX, y |-> nextY, width |-> nextW, height |-> nextH]

\* the rectangle a resize move computes from the gesture record rs
resizeRect(rs, dxWorld, dyWorld) ==
    LET dir == rs.dir
        eW == IF DirHas(dir, "e") THEN RMax(R(MIN_W), RAdd(rs.startW, dxWorld)) ELSE rs.startW
        sH == IF DirHas(dir, "s") THEN RMax(R(MIN_H), RAdd(rs.startH, dyWorld)) ELSE rs.startH
        nextW == IF DirHas(dir, "w") THEN RMax(R(MIN_W), RSub(rs.startW, dxWorld)) ELSE eW
        nextX == IF DirHas(dir, "w") THEN RAdd(rs.startX, RSub(rs.startW, nextW)) ELSE rs.startX
        nextH == IF DirHas(dir, "n") THEN RMax(R(MIN_H), RSub(rs.startH, dyWorld)) ELSE sH
        nextY == IF DirHas(dir, "n") THEN RAdd(rs.startY, RSub(rs.startH, nextH)) ELSE rs.startY
    IN  [x |-> nextX, y |-> nextY, width |-> nextW, height |-> nextH]

\* resize move that shifts the left edge by the raw pointer delta
resizeMoveRawShift(p, cx, cy) ==
    IF resize = Null \/ p # resize.pointerId THEN <<>>
    ELSE LET dx == cx - resize.startPointerX
             dy == cy - resize.startPointerY
             scale == camera.scale
             r == resizeRect(resize, RDiv(R(dx), scale), RDiv(R(dy), scale))
             k == find(itemsRef, resize.itemId)
         IN  IF k = 0 THEN <<>>
             ELSE <<[itemsRef[k] EXCEPT
                        !.x = IF DirHas(resize.dir, "w")
                              THEN RAdd(resize.startX, RDiv(R(dx), scale)) ELSE r.x,
                        !.y = r.y, !.width = r.width, !.height = r.height]>>

\* resize effect's handlePointerMove: the updates it passes to onUpdateItem
resizeMove(p, cx, cy) ==
    IF resize = Null \/ p # resize.pointerId THEN <<>>
    ELSE LET dx == cx - resize.startPointerX
             dy == cy - resize.startPointerY
             scale == camera.scale
             r == resizeRect(resize, RDiv(R(dx), scale), RDiv(R(dy), scale))
             k == find(itemsRef, resize.itemId)
         IN  IF k = 0 THEN <<>>
             ELSE <<[itemsRef[k] EXCEPT !.x = r.x, !.y = r.y,
                                        !.width = r.width, !.height = r.height]>>

\* frameResize effect's handlePointerMove: the updates it passes to onUpdateFrame
frameResizeMove(p, cx, cy) ==
    IF frameResize = Null \/ p # frameResize.pointerId THEN <<>>
    ELSE LET dx == cx - frameResize.startPointerX
             dy == cy - frameResize.startPointerY
             scale == camera.scale
             r == resizeRect(frameResize, RDiv(R(dx), scale), RDiv(R(dy), scale))
             k == find(framesRef, frameResize.itemId)
         IN  IF k = 0 THEN <<>>
             ELSE <<[framesRef[k] EXCEPT !.x = r.x, !.y = r.y,
                                         !.width = r.width, !.height = r.height]>>

\* pan move that converts the pointer delta to world units
panMoveWorldDelta(p, cx, cy) ==
    IF pan = Null \/ p # pan.pointerId THEN <<>>
    ELSE LET dx == cx - pan.startPointerX
             dy == cy - pan.startPointerY
         IN  <<[camera EXCEPT !.tx = RAdd(pan.startTx, RDiv(R(dx), camera.scale)),
                              !.ty = RAdd(pan.startTy, RDiv(R(dy), camera.scale))]>>

\* pan effect's handlePointerMove: the camera it passes to applyCamera
panMove(p, cx, cy) ==
    IF pan = Null \/ p # pan.pointerId THEN <<>>
    ELSE LET dx == cx - pan.startPointerX
             dy == cy - pan.startPointerY
         IN  <<[camera EXCEPT !.tx = RAdd(pan.startTx, R(dx)),
                              !.ty = RAdd(pan.startTy, R(dy))]>>

\* a pointermove on window: every registered listener sees it (the effects
\* register listeners only while their gesture is active)
PointerMove(p, cx, cy) ==
    LET itemUpdates == dragMove(p, cx, cy) \o resizeMove(p, cx, cy)
        frameUpdates == frameDragMove(p, cx, cy) \o frameResizeMove(p, cx, cy)
        cam == panMove(p, cx, cy)
    IN  /\ \E g \in {drag, resize, frameDrag, frameResize, pan} : g # Null
        /\ \A k \in 1 .. Len(itemUpdates) : InWorldWindow(itemUpdates[k])
        /\ \A k \in 1 .. Len(frameUpdates) : InWorldWindow(frameUpdates[k])
        /\ Handle("pointermove", p, cx, cy, NullId, "", 0)
        /\ handleUpdateWhiteboardItem(itemUpdates)
        /\ handleUpdateFrame(frameUpdates)
        /\ IF cam = <<>> THEN UNCHANGED camVars
           ELSE applyCamera(cam[1])
        /\ Quiet
        /\ UNCHANGED <<gestVars, itemsRef, framesRef, notes, queryVars>>

\* the render that follows state updates: refs and captured values catch up
Render ==
    /\ itemsRef # items \/ framesRef # frames
    /\ itemsRef' = items
    /\ framesRef' = frames
    /\ ev' = Event("render", 0, 0, 0, NullId, "", 0)
    /\ Quiet
    /\ UNCHANGED <<camVars, gestVars, items, frames, notes, saveVars, queryVars>>

\* pointerup / pointercancel on window: every registered listener sees it
PointerUp(p, type) ==
    LET mine(g) == g # Null /\ g.pointerId = p
        k == IF mine(drag) THEN find(itemsRef, drag.itemId) ELSE 0
        nextFrameId == findContainingFrameIdForItem(itemsRef[k])
    IN  /\ p \in down
        /\ down' = down \ {p}
        /\ UNCHANGED keyboard
        /\ Handle(type, p, 0, 0, NullId, "", 0)
        /\ notes' = IF k > 0
                    THEN handleAssignNoteToFrame(notes, itemsRef[k].noteId, nextFrameId)
                    ELSE notes
        /\ storeNotes' = IF k > 0
                         THEN assignInStorage(storeNotes, notes, itemsRef[k].noteId, nextFrameId)
                         ELSE storeNotes
        /\ calls' = IF k > 0
                    THEN <<[op |-> "onAssignNoteToFrame", noteId |-> itemsRef[k].noteId,
                            frameId |-> nextFrameId]>>
                    ELSE <<>>
        /\ UNCHANGED <<activeBoardId, boards, shelved, uncaught>>
        /\ drag' = IF mine(drag) THEN Null ELSE drag
        /\ frameDrag' = IF mine(frameDrag) THEN Null ELSE frameDrag
        /\ resize' = IF mine(resize) THEN Null ELSE resize
        /\ frameResize' = IF mine(frameResize) THEN Null ELSE frameResize
        /\ pan' = IF mine(pan) THEN Null ELSE pan
        /\ itemsRef' = items
        /\ framesRef' = frames
        /\ UNCHANGED <<camVars, isSpaceDown, items, frames, saveVars, queryVars>>

ZRoom(seq) == \A k \in 1 .. Len(seq) : seq[k].z <= Len(seq) + MaxBumps

\* press on a note that the canvas does not recognise as landing on a note
PressNoteReachesCanvas(p, id, type, cx, cy, dir) ==
    LET k == find(itemsRef, id)
        item == itemsRef[k]
        updates == bumpToFront(item)
    IN  /\ p \notin down
        /\ k > 0
        /\ down' = down \cup {p}
        /\ UNCHANGED keyboard
        /\ Handle(type, p, cx, cy, id, dir, 0)
        /\ handleUpdateWhiteboardItem(updates)
        /\ ZRoom(items')
        /\ itemsRef' = items'
        /\ framesRef' = frames
        /\ Quiet
        /\ pan' = IF ~isSpaceDown THEN pan
                  ELSE [pointerId |-> p, startPointerX |-> cx, startPointerY |-> cy,
                        startTx |-> camera.tx, startTy |-> camera.ty]
        /\ UNCHANGED <<camVars, isSpaceDown, frameDrag, frameResize,
                       frames, storeFrames, notes, queryVars>>

\* the part common to every press on a note: onActivateNote, bumpToFront
PressNote(p, id, type, cx, cy, dir) ==
    LET k == find(itemsRef, id)
        item == itemsRef[k]
        updates == bumpToFront(item)
    IN  /\ p \notin down
        /\ k > 0
        /\ down' = down \cup {p}
        /\ UNCHANGED keyboard
        /\ Handle(type, p, cx, cy, id, dir, 0)
        /\ handleUpdateWhiteboardItem(updates)
        /\ ZRoom(items')
        /\ itemsRef' = items'
        /\ framesRef' = frames
        /\ Quiet
        /\ UNCHANGED <<camVars, isSpaceDown, pan, frameDrag, frameResize,
                       frames, storeFrames, notes, queryVars>>

\* note container onPointerDown; the event bubbles to the canvas, which
\* ignores a press that landed on a note
PressNoteBody(p, id) ==
    /\ PressNote(p, id, "press-note", 0, 0, "")
    /\ UNCHANGED <<drag, resize>>

\* note header onPointerDown
PressNoteHeader(p, id, cx, cy) ==
    /\ PressNote(p, id, "press-note-header", cx, cy, "")
    /\ LET item == itemsRef[find(itemsRef, id)]
       IN  drag' = [itemId |-> item.id, pointerId |-> p,
                    startPointerX |-> cx, startPointerY |-> cy,
                    startX |-> item.x, startY |-> item.y]
    /\ UNCHANGED resize

\* note resize handle onPointerDown
PressNoteHandle(p, id, dir, cx, cy) ==
    /\ PressNote(p, id, "press-note-handle", cx, cy, dir)
    /\ LET item == itemsRef[find(itemsRef, id)]
       IN  resize' = [itemId |-> item.id, pointerId |-> p, dir |-> dir,
                      startPointerX |-> cx, startPointerY |-> cy,
                      startX |-> item.x, startY |-> item.y,
                      startW |-> item.width, startH |-> item.height]
    /\ UNCHANGED drag

\* the part common to every press on a frame: bumpFrameToFront
PressFrame(p, id, type, cx, cy, dir) ==
    LET k == find(framesRef, id)
        frame == framesRef[k]
        updates == bumpFrameToFront(frame)
    IN  /\ p \notin down
        /\ k > 0
        /\ down' = down \cup {p}
        /\ UNCHANGED keyboard
        /\ Handle(type, p, cx, cy, id, dir, 0)
        /\ handleUpdateFrame(updates)
        /\ ZRoom(frames')
        /\ framesRef' = frames'
        /\ itemsRef' = items
        /\ Quiet
        /\ UNCHANGED <<camVars, isSpaceDown, pan, drag, resize,
                       items, pending, saveTimer, saveTimers, storeItems, notes, queryVars>>

\* frame header onPointerDown (not on the name input)
PressFrameHeader(p, id, cx, cy) ==
    /\ PressFrame(p, id, "press-frame-header", cx, cy, "")
    /\ LET frame == framesRef[find(framesRef, id)]
       IN  frameDrag' = [itemId |-> frame.id, pointerId |-> p,
                         startPointerX |-> cx, startPointerY |-> cy,
                         startX |-> frame.x, startY |-> frame.y]
    /\ UNCHANGED frameResize

\* frame resize handle onPointerDown
PressFrameHandle(p, id, dir, cx, cy) ==
    /\ PressFrame(p, id, "press-frame-handle", cx, cy, dir)
    /\ LET frame == framesRef[find(framesRef, id)]
       IN  frameResize' = [itemId |-> frame.id, pointerId |-> p, dir |-> dir,
                           startPointerX |-> cx, startPointerY |-> cy,
                           startX |-> frame.x, startY |-> frame.y,
                           startW |-> frame.width, startH |-> frame.height]
    /\ UNCHANGED frameDrag

\* canvas container onPointerDown for a press on the background
PressCanvas(p, cx, cy) ==
    /\ p \notin down
    /\ down' = down \cup {p}
    /\ UNCHANGED keyboard
    /\ Handle("press-canvas", p, cx, cy, NullId, "", 0)
    /\ pan' = IF ~isSpaceDown THEN pan
              ELSE [pointerId |-> p, startPointerX |-> cx, startPointerY |-> cy,
                    startTx |-> camera.tx, startTy |-> camera.ty]
    /\ itemsRef' = items
    /\ framesRef' = frames
    /\ Quiet
    /\ UNCHANGED <<camVars, isSpaceDown, drag, resize, frameDrag, frameResize,
                   items, frames, notes, saveVars, queryVars>>

\* keydown of Space on window: the first one of a key press, or a repeat that
\* still has an effect; ignored when its target is an editable element
HandleKeyDown ==
    /\ ~keyboard.held \/ ~isSpaceDown
    /\ keyboard' = [keyboard EXCEPT !.held = TRUE]
    /\ isSpaceDown' = IF keyboard.editable THEN isSpaceDown ELSE TRUE
    /\ Handle("keydown", 0, 0, 0, NullId, "", 0)
    /\ itemsRef' = items
    /\ framesRef' = frames
    /\ Quiet
    /\ UNCHANGED <<camVars, pan, drag, resize, frameDrag, frameResize, down,
                   items, frames, notes, saveVars, queryVars>>

\* keyup of Space on window; ignored when its target is an editable element
HandleKeyUp ==
    /\ keyboard.held
    /\ keyboard' = [keyboard EXCEPT !.held = FALSE]
    /\ isSpaceDown' = IF keyboard.editable THEN isSpaceDown ELSE FALSE
    /\ pan' = IF keyboard.editable THEN pan ELSE Null
    /\ Handle("keyup", 0, 0, 0, NullId, "", 0)
    /\ itemsRef' = items
    /\ framesRef' = frames
    /\ Quiet
    /\ UNCHANGED <<camVars, drag, resize, frameDrag, frameResize, down,
                   items, frames, notes, saveVars, queryVars>>

\* the focus moves into an editable element (a note's editor, a title input)
\* or out of it: the target of later key events.  No handler of the
\* whiteboard sees the focus change itself.
FocusChange(editable) ==
    /\ keyboard.editable # editable
    /\ keyboard' = [keyboard EXCEPT !.editable = editable]
    /\ ev' = Event(IF editable THEN "focus-editable" ELSE "blur", 0, 0, 0, NullId, "", 0)
    /\ Quiet
    /\ UNCHANGED <<camVars, isSpaceDown, pan, drag, resize, frameDrag, frameResize, down,
                   entVars, saveVars, queryVars>>

\* the centerOnRequest / centerOnFrameRequest effects
CenterOnNote(noteId) ==
    /\ \E k \in 1 .. Len(items) : items[k].noteId = noteId
    /\ LET item == items[CHOOSE k \in 1 .. Len(items) :
                       items[k].noteId = noteId
                       /\ \A j \in 1 .. k - 1 : items[j].noteId # noteId]
           next == centerOn(camera, item)
       IN  applyCamera(next)
    /\ Handle("center-note", 0, 0, 0, noteId, "", 0)
    /\ itemsRef' = items
    /\ framesRef' = frames
    /\ Quiet
    /\ UNCHANGED <<gestVars, items, frames, notes, saveVars, queryVars>>

CenterOnFrame(frameId) ==
    /\ find(frames, frameId) > 0
    /\ LET next == centerOn(camera, frames[find(frames, frameId)])
       IN  applyCamera(next)
    /\ Handle("center-frame", 0, 0, 0, frameId, "", 0)
    /\ itemsRef' = items
    /\ framesRef' = frames
    /\ Quiet
    /\ UNCHANGED <<gestVars, items, frames, notes, saveVars, queryVars>>


\* one membership query of getLiveNotesInFrame: the frame of items[k] among
\* the frames of the board
ResolveLive(k) ==
    /\ Handle("resolve", 0, 0, 0, items[k].id, "", 0)
    /\ resolved' = getLiveFrameIdForItem(items[k], frames)
    /\ UNCHANGED liveNotes
    /\ Quiet
    /\ UNCHANGED <<camVars, gestVars, entVars, saveVars>>

\* bulk query that trusts the cached frameId of the notes
getLiveNotesInFrameCached(frameId, ns, its, frs) ==
    SelectSeq(ns, LAMBDA note : note.frameId = frameId)

\* getLiveNotesInFrame: itemByNoteId keeps the last item of a note
getLiveNotesInFrame(frameId, ns, its, frs) ==
    LET has(noteId) == \E k \in 1 .. Len(its) : its[k].noteId = noteId
        itemByNoteId(noteId) ==
            its[CHOOSE k \in 1 .. Len(its) :
                    /\ its[k].noteId = noteId
                    /\ \A j \in k + 1 .. Len(its) : its[j].noteId # noteId]
    IN  SelectSeq(ns, LAMBDA note :
            /\ has(note.id)
            /\ getLiveFrameIdForItem(itemByNoteId(note.id), frs) = frameId)

\* a caller (collectContextNotesForChat) asks for the notes of a frame
QueryLiveNotes(frameId) ==
    /\ ev' = Event("live-notes", 0, 0, 0, frameId, "", 0)
    /\ liveNotes' = getLiveNotesInFrame(frameId, notes, items, frames)
    /\ Quiet
    /\ UNCHANGED <<camVars, gestVars, entVars, saveVars, resolved>>

\* ------------------------------------------------------------- persistence
\* saveWhiteboardItems without the try / catch around localStorage.setItem
saveWhiteboardItemsNoCatch(store, its, quota) ==
    [store |-> IF quota THEN store ELSE its, ok |-> ~quota, thrown |-> quota]

\* saveWhiteboardItems: localStorage.setItem inside try / catch; quota says
\* that setItem throws
saveWhiteboardItems(store, its, quota) ==
    [store |-> IF quota THEN store ELSE its, ok |-> ~quota, thrown |-> FALSE]

\* the loop of batchUpsertWhiteboardItems: indexById holds, for every id, the
\* last index that carries it; an update replaces the entry there or is pushed
RECURSIVE applyUpdates(_, _)
applyUpdates(its, updates) ==
    IF updates = <<>> THEN its
    ELSE LET item == Head(updates)
             at == {k \in 1 .. Len(its) : its[k].id = item.id}
             idx == CHOOSE k \in at : \A j \in at : j <= k
         IN  applyUpdates(IF at # {} THEN [its EXCEPT ![idx] = item] ELSE Append(its, item),
                          Tail(updates))

\* batched upsert that pushes every update
batchUpsertWhiteboardItemsPushAll(store, updates, quota) ==
    IF Len(updates) = 0 THEN [store |-> store, ok |-> TRUE, thrown |-> FALSE]
    ELSE saveWhiteboardItems(store, store \o updates, quota)

batchUpsertWhiteboardItems(store, updates, quota) ==
    IF Len(updates) = 0 THEN [store |-> store, ok |-> TRUE, thrown |-> FALSE]
    ELSE saveWhiteboardItems(store, applyUpdates(store, updates), quota)

\* flush that clears the map before it copies the values
flushWhiteboardSavesClearFirst(store, quota) ==
    LET w == batchUpsertWhiteboardItems(store, <<>>, quota)
    IN  IF activeBoardId = NullId
        THEN [store |-> store, thrown |-> FALSE, calls |-> <<>>]
        ELSE [store |-> w.store, thrown |-> w.thrown,
              calls |-> <<[op |-> "batchUpsertWhiteboardItems", boardId |-> activeBoardId,
                           payload |-> <<>>, ok |-> w.ok]>>]

\* flushWhiteboardSaves: the persisted items of the active board, store, afterwards,
\* the batched write call it made and whether an exception left it; the
\* caller clears the timer and the pending map
flushWhiteboardSaves(store, quota) ==
    LET w == batchUpsertWhiteboardItems(store, pending, quota)
    IN  IF activeBoardId = NullId
        THEN [store |-> store, thrown |-> FALSE, calls |-> <<>>]
        ELSE [store |-> w.store, thrown |-> w.thrown,
              calls |-> <<[op |-> "batchUpsertWhiteboardItems", boardId |-> activeBoardId,
                           payload |-> pending, ok |-> w.ok]>>]

\* timer flush that leaves the expired handle in whiteboardSaveTimerRef
FlushTimerKeepHandle(quota) ==
    LET f == flushWhiteboardSaves(storeItems, quota)
    IN  /\ saveTimers # <<>>
        /\ ev' = Event("timer", 0, 0, 0, NullId, "", 0)
        /\ pending' = <<>>
        /\ saveTimer' = saveTimer
        /\ saveTimers' = Tail(saveTimers)
        /\ storeItems' = f.store
        /\ calls' = f.calls
        /\ uncaught' = (uncaught \/ f.thrown)
        /\ UNCHANGED <<camVars, gestVars, entVars, storeFrames, queryVars,
                       activeBoardId, boards, shelved, storeNotes>>

\* the timers left when the oldest has fired: the time it had left has
\* passed for the others too
afterFiring(timers) ==
    [k \in 1 .. Len(timers) - 1 |->
        IF timers[k + 1] > timers[1] THEN timers[k + 1] - timers[1] ELSE 0]

\* the rest of the delay passes and the timer started by
\* scheduleWhiteboardSave expires: flushWhiteboardSaves runs
FlushTimer(quota) ==
    LET f == flushWhiteboardSaves(storeItems, quota)
    IN  /\ saveTimers # <<>>
        /\ ev' = Event("timer", 0, 0, 0, NullId, "", 0)
        /\ pending' = <<>>
        /\ saveTimer' = FALSE
        /\ saveTimers' = clearTimeout(afterFiring(saveTimers))
        /\ storeItems' = f.store
        /\ calls' = f.calls
        /\ uncaught' = (uncaught \/ f.thrown)
        /\ UNCHANGED <<camVars, gestVars, entVars, storeFrames, queryVars,
                       activeBoardId, boards, shelved, storeNotes>>

\* time passes while no timer is due: every running timer has that much
\* less left
Tick(ms) ==
    /\ saveTimers # <<>>
    /\ \A k \in 1 .. Len(saveTimers) : ms < saveTimers[k]
    /\ saveTimers' = [k \in 1 .. Len(saveTimers) |-> saveTimers[k] - ms]
    /\ ev' = Event("tick", 0, 0, 0, NullId, "", 0)
    /\ Quiet
    /\ UNCHANGED <<camVars, gestVars, entVars, pending, saveTimer, storeItems,
                   storeFrames, queryVars>>

\* onBeforeUnload, and onVisibilityChange for a document that is hidden or
\* visible again
HostSignal(type, quota) ==
    LET f == flushWhiteboardSaves(storeItems, quota)
        flushes == type \in {"beforeunload", "hidden"}
    IN  /\ Handle(type, 0, 0, 0, NullId, "", 0)
        /\ pending' = IF flushes THEN <<>> ELSE pending
        /\ saveTimer' = IF flushes THEN FALSE ELSE saveTimer
        /\ saveTimers' = IF flushes THEN clearTimeout(saveTimers) ELSE saveTimers
        /\ storeItems' = IF flushes THEN f.store ELSE storeItems
        /\ calls' = IF flushes THEN f.calls ELSE <<>>
        /\ uncaught' = (uncaught \/ (flushes /\ f.thrown))
        /\ UNCHANGED <<camVars, gestVars, entVars, storeFrames, queryVars,
                       activeBoardId, boards, shelved, storeNotes>>

\* ids of the welcome note loadBoardData creates on a board without notes
WelcomeId(boardId) == 10 * boardId

\* loadBoardData: the state it sets and the data persisted afterwards
loadBoardData(data, boardId) ==
    LET welcome == [id |-> WelcomeId(boardId), frameId |-> NullId]
        nextItems == <<[id |-> welcome.id, noteId |-> welcome.id, x |-> R(120), y |-> R(120),
                        width |-> R(520), height |-> R(420), z |-> 1]>>
        initialItems == [k \in 1 .. Len(data.notes) |->
                            [id |-> data.notes[k].id, noteId |-> data.notes[k].id,
                             x |-> R(80 + ((k - 1) % 4) * 40), y |-> R(80 + (k - 1) * 40),
                             width |-> R(520), height |-> R(420), z |-> 1]]
    IN  IF Len(data.notes) = 0
        THEN [notes |-> <<welcome>>, items |-> nextItems, frames |-> data.frames]
        ELSE IF Len(data.items) > 0 THEN data
        ELSE [notes |-> data.notes, items |-> initialItems, frames |-> data.frames]

\* what every flush does with the pending saves
FlushFirst(f) ==
    /\ pending' = <<>>
    /\ saveTimer' = FALSE
    /\ saveTimers' = clearTimeout(saveTimers)
    /\ calls' = f.calls
    /\ uncaught' = (uncaught \/ f.thrown)

\* the active board becomes next, whose persisted data are data; old are the
\* persisted data the board that was active is left with; the new board is
\* loaded and rendered
SwitchBoard(next, old, data) ==
    LET L == loadBoardData(data, next)
    IN  /\ activeBoardId' = next
        /\ shelved' = [shelved EXCEPT ![activeBoardId] = old, ![next] = EmptyData]
        /\ notes' = L.notes /\ items' = L.items /\ frames' = L.frames
        /\ storeNotes' = L.notes /\ storeItems' = L.items /\ storeFrames' = L.frames
        /\ itemsRef' = L.items /\ framesRef' = L.frames

BoardSet == {boards[k] : k \in 1 .. Len(boards)}

\* board selection that switches without flushing the pending saves
onSelectBoardNoFlush(boardId, quota) ==
    /\ boardId \in BoardSet
    /\ Handle("select-board", 0, 0, 0, boardId, "", 0)
    /\ IF boardId = activeBoardId
       THEN /\ calls' = <<>>
            /\ UNCHANGED <<entVars, saveVars, hostVars>>
       ELSE /\ calls' = <<>>
            /\ UNCHANGED <<pending, saveTimer, saveTimers, uncaught>>
            /\ SwitchBoard(boardId,
                           [notes |-> storeNotes, items |-> storeItems, frames |-> storeFrames],
                           shelved[boardId])
            /\ UNCHANGED boards
    /\ UNCHANGED <<camVars, gestVars, queryVars>>

\* Sidebar onSelectBoard
onSelectBoard(boardId, quota) ==
    LET f == flushWhiteboardSaves(storeItems, quota)
    IN  /\ boardId \in BoardSet
        /\ Handle("select-board", 0, 0, 0, boardId, "", 0)
        /\ IF boardId = activeBoardId
           THEN /\ calls' = <<>>
                /\ UNCHANGED <<entVars, saveVars, hostVars>>
           ELSE /\ FlushFirst(f)
                /\ SwitchBoard(boardId,
                               [notes |-> storeNotes, items |-> f.store, frames |-> storeFrames],
                               shelved[boardId])
                /\ UNCHANGED boards
        /\ UNCHANGED <<camVars, gestVars, queryVars>>

\* board creation that switches without flushing the pending saves
onCreateBoardNoFlush(quota) ==
    LET free == BoardIds \ BoardSet
        board == CHOOSE b \in free : \A c \in free : b <= c
    IN  /\ free # {}
        /\ Handle("create-board", 0, 0, 0, board, "", 0)
        /\ calls' = <<>>
        /\ UNCHANGED <<pending, saveTimer, saveTimers, uncaught>>
        /\ boards' = <<board>> \o boards
        /\ SwitchBoard(board,
                       [notes |-> storeNotes, items |-> storeItems, frames |-> storeFrames],
                       EmptyData)
        /\ UNCHANGED <<camVars, gestVars, queryVars>>

\* Sidebar onCreateBoard
onCreateBoard(quota) ==
    LET f == flushWhiteboardSaves(storeItems, quota)
        free == BoardIds \ BoardSet
        board == CHOOSE b \in free : \A c \in free : b <= c
    IN  /\ free # {}
        /\ Handle("create-board", 0, 0, 0, board, "", 0)
        /\ FlushFirst(f)
        /\ boards' = <<board>> \o boards
        /\ SwitchBoard(board,
                       [notes |-> storeNotes, items |-> f.store, frames |-> storeFrames],
                       EmptyData)
        /\ UNCHANGED <<camVars, gestVars, queryVars>>

\* Sidebar onDeleteBoard, confirmed
onDeleteBoard(boardId, quota) ==
    LET f == flushWhiteboardSaves(<<>>, quota)
        nextBoards == SelectSeq(boards, LAMBDA b : b # boardId)
        free == BoardIds \ BoardSet
        fallback == CHOOSE b \in free : \A c \in free : b <= c
        old == [notes |-> <<>>, items |-> f.store, frames |-> <<>>]
    IN  /\ boardId \in BoardSet
        /\ Len(nextBoards) = 0 => free # {}
        /\ Handle("delete-board", 0, 0, 0, boardId, "", 0)
        /\ IF boardId # activeBoardId
           THEN /\ shelved' = [shelved EXCEPT ![boardId] = EmptyData]
                /\ boards' = nextBoards
                /\ calls' = <<>>
                /\ UNCHANGED <<entVars, saveVars, activeBoardId, storeNotes, uncaught>>
           ELSE /\ FlushFirst(f)
                /\ IF Len(nextBoards) = 0
                   THEN /\ boards' = <<fallback>>
                        /\ SwitchBoard(fallback, old, EmptyData)
                   ELSE /\ boards' = nextBoards
                        /\ SwitchBoard(nextBoards[1], old, shelved[nextBoards[1]])
        /\ UNCHANGED <<camVars, gestVars, queryVars>>

\* note deletion after which itemsRef still holds the deleted item
deleteNoteByIdStaleRef(id) ==
    /\ find(notes, id) > 0
    /\ Handle("delete-note", 0, 0, 0, id, "", 0)
    /\ notes' = SelectSeq(notes, LAMBDA n : n.id # id)
    /\ storeNotes' = SelectSeq(storeNotes, LAMBDA n : n.id # id)
    /\ storeItems' = SelectSeq(storeItems, LAMBDA i : i.noteId # id)
    /\ items' = SelectSeq(items, LAMBDA i : i.noteId # id)
    /\ itemsRef' = itemsRef
    /\ framesRef' = frames
    /\ calls' = <<>>
    /\ UNCHANGED <<camVars, gestVars, frames, pending, saveTimer, saveTimers, storeFrames,
                   queryVars,
                   activeBoardId, boards, shelved, uncaught>>

\* deleteNoteById, confirmed
deleteNoteById(id) ==
    /\ find(notes, id) > 0
    /\ Handle("delete-note", 0, 0, 0, id, "", 0)
    /\ notes' = SelectSeq(notes, LAMBDA n : n.id # id)
    /\ storeNotes' = SelectSeq(storeNotes, LAMBDA n : n.id # id)
    /\ storeItems' = SelectSeq(storeItems, LAMBDA i : i.noteId # id)
    /\ items' = SelectSeq(items, LAMBDA i : i.noteId # id)
    /\ itemsRef' = items'
    /\ framesRef' = frames
    /\ calls' = <<>>
    /\ UNCHANGED <<camVars, gestVars, frames, pending, saveTimer, saveTimers, storeFrames,
                   queryVars,
                   activeBoardId, boards, shelved, uncaught>>

\* ------------------------------------------------------------ initial state
\* createWhiteboardItemForNote / createFrame sizes
ItemW == 520
ItemH == 420
FrameW == 720
FrameH == 520

NewItem(id, x, y, w, h, z) ==
    [id |-> id, noteId |-> id, x |-> R(x), y |-> R(y), width |-> R(w), height |-> R(h), z |-> z]

NewFrame(id, x, y, w, h, z) ==
    [id |-> id, x |-> R(x), y |-> R(y), width |-> R(w), height |-> R(h), z |-> z]

InitCamera == [tx |-> R(0), ty |-> R(0), scale |-> R(1)]

\* one note on a board without frames, as created or already resized to the
\* minimum, or one frame on a board whose notes were deleted
InitBoards ==
    {[items |-> <<NewItem(1, 0, 0, s[1], s[2], 1)>>, frames |-> <<>>] :
        s \in {<<ItemW, ItemH>>, <<MIN_W, MIN_H>>}}
    \cup {[items |-> <<>>, frames |-> <<NewFrame(1, 0, 0, FrameW, FrameH, 1)>>]}

\* the component state after mount, for the items and frames of the active
\* board
InitApp(left) ==
    /\ uncaught = FALSE
    /\ calls = <<>>
    /\ rafPending = FALSE
    /\ rafQueue = 0
    /\ isSpaceDown = FALSE
    /\ pan = Null /\ drag = Null /\ resize = Null
    /\ frameDrag = Null /\ frameResize = Null
    /\ down = {}
    /\ keyboard = [held |-> FALSE, editable |-> FALSE]
    /\ itemsRef = items
    /\ framesRef = frames
    /\ notes = [k \in 1 .. Len(items) |-> [id |-> items[k].noteId, frameId |-> NullId]]
    /\ storeNotes = notes
    /\ pending = <<>>
    /\ saveTimer = FALSE
    /\ saveTimers = <<>>
    /\ storeItems = items
    /\ storeFrames = frames
    /\ resolved = NullId
    /\ liveNotes = <<>>
    /\ ev = [type |-> "mount", pointerId |-> 0, x |-> 0, y |-> 0, target |-> NullId,
            dir |-> "", deltaY |-> 0, left |-> left, clock |-> 2]

\* a single board
InitRest(left) ==
    /\ activeBoardId = 1
    /\ boards = <<1>>
    /\ shelved = [b \in BoardIds |-> EmptyData]
    /\ InitApp(left)

\* the whiteboard after mount, at one of the scales a zoom about the
\* container's origin leaves behind
InitScales == {Rat(1, 2), R(1), Rat(5, 2)}

Init ==
    /\ camera \in {[InitCamera EXCEPT !.scale = s] : s \in InitScales}
    /\ rendered = camera
    /\ \E b \in InitBoards : items = b.items /\ frames = b.frames
    /\ InitRest(-1)

\* frame deletion that keeps the frames up to the deleted one only
deleteFrameFromStorageTruncate(stored, id) == SubSeq(stored, 1, find(stored, id) - 1)

\* deleteFrameFromStorage: the persisted frames without the frame id
deleteFrameFromStorage(stored, id) == SelectSeq(stored, LAMBDA f : f.id # id)

\* a frame of the active board is deleted from the store
DeleteFrame(id) ==
    /\ find(storeFrames, id) > 0
    /\ Handle("delete-frame", 0, 0, 0, id, "", 0)
    /\ storeFrames' = deleteFrameFromStorage(storeFrames, id)
    /\ Quiet
    /\ UNCHANGED <<camVars, gestVars, entVars, pending, saveTimer, saveTimers, storeItems,
                   queryVars>>

\* the page is loaded again: onBeforeUnload flushes, the timers die with the
\* page, and the mount effects load the active board from the store
Reload(quota) ==
    LET f == flushWhiteboardSaves(storeItems, quota)
        L == loadBoardData([notes |-> storeNotes, items |-> f.store, frames |-> storeFrames],
                           activeBoardId)
    IN  /\ Handle("reload", 0, 0, 0, NullId, "", 0)
        /\ camera' = InitCamera /\ rendered' = InitCamera
        /\ rafPending' = FALSE /\ rafQueue' = 0
        /\ isSpaceDown' = FALSE
        /\ pan' = Null /\ drag' = Null /\ resize' = Null
        /\ frameDrag' = Null /\ frameResize' = Null
        /\ down' = {}
        /\ UNCHANGED keyboard
        /\ notes' = L.notes /\ items' = L.items /\ frames' = L.frames
        /\ itemsRef' = L.items /\ framesRef' = L.frames
        /\ storeNotes' = L.notes /\ storeItems' = L.items /\ storeFrames' = L.frames
        /\ pending' = <<>> /\ saveTimer' = FALSE /\ saveTimers' = <<>>
        /\ calls' = f.calls
        /\ uncaught' = FALSE
        /\ UNCHANGED <<activeBoardId, boards, shelved, queryVars>>

\* batchUpsertWhiteboardItems is called for the active board with a batch
UpsertBatch(updates, quota) ==
    LET w == batchUpsertWhiteboardItems(storeItems, updates, quota)
    IN  /\ Handle("batch-upsert", 0, 0, 0, NullId, "", 0)
        /\ storeItems' = w.store
        /\ calls' = <<[op |-> "batchUpsertWhiteboardItems", boardId |-> activeBoardId,
                       payload |-> updates, ok |-> w.ok]>>
        /\ UNCHANGED <<camVars, gestVars, entVars, pending, saveTimer, saveTimers,
                       storeFrames, queryVars, hostVars>>

\* an id no entity of seq carries, for uuidv4()
freshId(seq) ==
    CHOOSE n \in 1 .. Len(seq) + 1 : \A k \in 1 .. Len(seq) : seq[k].id # n

\* Date.now() when ms have passed since the clock was last read
now(ms) == ev.clock + ms

\* double click on the canvas background: handleCreateNoteAt at the world
\* point under the cursor
handleCreateNoteAt(cx, cy, ms, quota) ==
    LET x == RDiv(RSub(R(cx - RectLeft), camera.tx), camera.scale)
        y == RDiv(RSub(R(cy - RectTop), camera.ty), camera.scale)
        id == freshId(notes \o items)
        item == [id |-> id, noteId |-> id, x |-> x, y |-> y,
                 width |-> R(ItemW), height |-> R(ItemH), z |-> now(ms)]
    IN  /\ activeBoardId # NullId
        /\ Len(items) < MaxCreated
        /\ ev.left # 0
        /\ ev' = [Event("create-note", 0, cx, cy, id, "", 0) EXCEPT
                     !.left = IF ev.left > 0 THEN ev.left - 1 ELSE ev.left,
                     !.clock = now(ms)]
        /\ notes' = <<[id |-> id, frameId |-> NullId]>> \o notes
        /\ storeNotes' = notes'
        /\ items' = Append(items, item)
        /\ storeItems' = saveWhiteboardItems(storeItems, items', quota).store
        /\ itemsRef' = items'
        /\ framesRef' = frames
        /\ calls' = <<>>
        /\ UNCHANGED <<camVars, gestVars, frames, pending, saveTimer, saveTimers, storeFrames,
                       queryVars, activeBoardId, boards, shelved, uncaught>>

\* the new-frame button: handleCreateFrame, and the centerOnFrameRequest
\* effect that follows the render
handleCreateFrame(ms) ==
    LET idx == Len(frames)
        frame == NewFrame(freshId(frames), 120 + (idx % 3) * 40, 120 + idx * 40,
                          FrameW, FrameH, now(ms))
    IN  /\ activeBoardId # NullId
        /\ Len(frames) < MaxCreated
        /\ ev.left # 0
        /\ ev' = [Event("create-frame", 0, 0, 0, frame.id, "", 0) EXCEPT
                     !.left = IF ev.left > 0 THEN ev.left - 1 ELSE ev.left,
                     !.clock = now(ms)]
        /\ frames' = Append(frames, frame)
        /\ storeFrames' = frames'
        /\ framesRef' = frames'
        /\ itemsRef' = items
        /\ applyCamera(centerOn(camera, frame))
        /\ Quiet
        /\ UNCHANGED <<gestVars, items, notes, pending, saveTimer, saveTimers, storeItems,
                       queryVars>>

ItemIds == {itemsRef[k].id : k \in 1 .. Len(itemsRef)}
FrameIds == {framesRef[k].id : k \in 1 .. Len(framesRef)}

MoveStep(P, Q) == \E p \in P, c \in Q : PointerMove(p, c[1], c[2])

UpStep(P) == \E p \in P, type \in {"pointerup", "pointercancel"} : PointerUp(p, type)

PressBodyStep(P) == \E p \in P, id \in ItemIds : PressNoteBody(p, id)

PressHeaderStep(P, Q) ==
    \E p \in P, c \in Q :
        \/ \E id \in ItemIds : PressNoteHeader(p, id, c[1], c[2])
        \/ \E id \in FrameIds : PressFrameHeader(p, id, c[1], c[2])

PressHandleStep(P, Q) ==
    \E p \in P, c \in Q, dir \in Dirs :
        \/ \E id \in ItemIds : PressNoteHandle(p, id, dir, c[1], c[2])
        \/ \E id \in FrameIds : PressFrameHandle(p, id, dir, c[1], c[2])

PressCanvasStep(P, Q) == \E p \in P, c \in Q : PressCanvas(p, c[1], c[2])

WheelStep(Q) ==
    \E c \in Q, deltaY \in -MaxWheel .. MaxWheel, metaKey \in BOOLEAN :
        HandleWheel(c[1], c[2], deltaY, metaKey)

CenterStep ==
    \/ \E k \in 1 .. Len(notes) : CenterOnNote(notes[k].id)
    \/ \E k \in 1 .. Len(frames) : CenterOnFrame(frames[k].id)

\* geometry gestures of one pointer on a board with a single entity
Next ==
    \/ PressHeaderStep({1}, Points)
    \/ PressHandleStep({1}, Points)
    \/ MoveStep({1}, Points)
    \/ UpStep({1})
    \/ Render

Spec == Init /\ [][Next]_vars

\* camera operations on a board with one note and one frame
InitCam ==
    /\ camera = InitCamera
    /\ rendered = camera
    /\ items = <<NewItem(1, Grid, Grid, ItemW, ItemH, 1)>>
    /\ frames = <<NewFrame(1, 0, 0, FrameW, FrameH, 1)>>
    /\ InitRest(MaxEvents)

NextCam ==
    \/ WheelStep(Points)
    \/ HandleKeyDown
    \/ HandleKeyUp
    \/ PressCanvasStep({1}, Points)
    \/ MoveStep({1}, Points)
    \/ UpStep({1})
    \/ CenterStep
    \/ RafCallback

SpecCam == InitCam /\ [][NextCam]_vars

\* the browser runs a requested animation-frame callback
SpecCamFair == SpecCam /\ WF_vars(RafCallback)

\* frame rectangles <<x, y, width, height>>: a created frame, a frame inside
\* it, and a created frame sharing its right border
ResolverRects == {<<0, 0, FrameW, FrameH>>, <<200, 100, MIN_W, MIN_H>>,
                  <<FrameW, 0, FrameW, FrameH>>}

\* positions of a minimum-size note: centre on the first frame's corner, one
\* unit left of it, inside both nested frames, on the shared border, outside
ResolverSpots == {<<-160, -110>>, <<-161, -110>>, <<200, 100>>, <<560, 0>>, <<800, 600>>}

ResolverFrameSeqs ==
    UNION {{q \in [1 .. n -> ResolverRects] :
               \A i, j \in 1 .. n : i # j => q[i] # q[j]} : n \in 0 .. 3}

\* frame membership on boards with one note and up to three frames
InitResolver ==
    /\ camera = InitCamera
    /\ rendered = camera
    /\ \E s \in ResolverSpots : items = <<NewItem(1, s[1], s[2], MIN_W, MIN_H, 1)>>
    /\ \E q \in ResolverFrameSeqs :
           frames = [k \in 1 .. Len(q) |-> NewFrame(k, q[k][1], q[k][2], q[k][3], q[k][4], k)]
    /\ InitRest(-1)

ResolveStep == \E k \in 1 .. Len(items) : ResolveLive(k)

NextResolver ==
    \/ ResolveStep
    \/ PressHeaderStep({1}, {<<0, 0>>})
    \/ UpStep({1})

SpecResolver == InitResolver /\ [][NextResolver]_vars

\* z orders of two entities of a class: distinct either way round, or equal
\* (created within the same millisecond)
InitZs == {<<1, 2>>, <<2, 1>>, <<1, 1>>}

\* presses of one pointer on a board with two notes and two frames
InitZ ==
    /\ camera = InitCamera
    /\ rendered = camera
    /\ \E z \in InitZs : items = <<NewItem(1, 0, 0, ItemW, ItemH, z[1]),
                                    NewItem(2, Grid, Grid, ItemW, ItemH, z[2])>>
    /\ \E z \in InitZs : frames = <<NewFrame(1, 0, 0, FrameW, FrameH, z[1]),
                                     NewFrame(2, Grid, Grid, FrameW, FrameH, z[2])>>
    /\ InitRest(-1)

NextZ ==
    \/ PressBodyStep({1})
    \/ PressHeaderStep({1}, {<<0, 0>>})
    \/ PressHandleStep({1}, {<<0, 0>>})
    \/ UpStep({1})

SpecZ == InitZ /\ [][NextZ]_vars

PressNoteHeaderStep(P, Q) ==
    \E p \in P, c \in Q, id \in ItemIds : PressNoteHeader(p, id, c[1], c[2])

FlushTimerStep == \E quota \in BOOLEAN : FlushTimer(quota)

TickStep == Tick(TickMs)

HostSignalStep ==
    \E type \in {"beforeunload", "hidden", "visible"}, quota \in BOOLEAN :
        HostSignal(type, quota)

SelectBoardStep == \E b \in BoardIds, quota \in BOOLEAN : onSelectBoard(b, quota)

CreateBoardStep == \E quota \in BOOLEAN : onCreateBoard(quota)

DeleteBoardStep == \E b \in BoardIds, quota \in BOOLEAN : onDeleteBoard(b, quota)

\* the debounced save queue on a board with two notes, next to a second
\* board with one note
InitSave ==
    /\ camera = InitCamera
    /\ rendered = camera
    /\ items = <<NewItem(1, 0, 0, ItemW, ItemH, 1), NewItem(2, Grid, Grid, ItemW, ItemH, 2)>>
    /\ frames = <<>>
    /\ activeBoardId = 1
    /\ boards = <<1, 2>>
    /\ shelved = [b \in BoardIds |->
                     IF b = 2 THEN [notes |-> <<[id |-> 3, frameId |-> NullId]>>,
                                    items |-> <<NewItem(3, 0, 0, ItemW, ItemH, 1)>>,
                                    frames |-> <<>>]
                     ELSE EmptyData]
    /\ InitApp(MaxEvents)

NextSave ==
    \/ PressBodyStep({1})
    \/ PressNoteHeaderStep({1}, {<<0, 0>>})
    \/ MoveStep({1}, Points)
    \/ Render
    \/ UpStep({1})
    \/ FlushTimerStep
    \/ HostSignalStep
    \/ SelectBoardStep
    \/ CreateBoardStep
    \/ DeleteBoardStep

SpecSave == InitSave /\ [][NextSave]_vars

\* the save queue with the clock
NextTimer == NextSave \/ TickStep

SpecTimer == InitSave /\ [][NextTimer]_vars

\* one note between two frames: the note starts inside the small frame, a
\* drag to the right takes it into the large one, a drag down into neither
InitDrag ==
    /\ camera = InitCamera
    /\ rendered = camera
    /\ items = <<NewItem(1, 0, 0, ItemW, ItemH, 1)>>
    /\ frames = <<NewFrame(1, 0, 0, MIN_W, MIN_H, 1),
                  NewFrame(2, 2 * Grid, 0, FrameW, FrameH, 2)>>
    /\ InitRest(-1)

NextDrag ==
    \/ PressNoteHeaderStep({1}, Points)
    \/ MoveStep({1}, Points)
    \/ Render
    \/ UpStep({1})

SpecDrag == InitDrag /\ [][NextDrag]_vars

\* two pointers on a board with one note and one frame, every gesture kind
InitPointers ==
    /\ camera = InitCamera
    /\ rendered = camera
    /\ items = <<NewItem(1, 0, 0, ItemW, ItemH, 1)>>
    /\ frames = <<NewFrame(1, 0, 0, FrameW, FrameH, 1)>>
    /\ InitRest(MaxEvents)

NextPointers ==
    \/ PressHeaderStep({1, 2}, {<<0, 0>>})
    \/ PressHandleStep({1, 2}, {<<0, 0>>})
    \/ PressCanvasStep({1, 2}, {<<0, 0>>})
    \/ HandleKeyDown
    \/ HandleKeyUp
    \/ MoveStep({1, 2}, Points)
    \/ UpStep({1, 2})
    \/ Render

SpecPointers == InitPointers /\ [][NextPointers]_vars

DeleteNoteStep == \E k \in 1 .. Len(notes) : deleteNoteById(notes[k].id)

\* a board with one note and one frame, next to a second board; the note can
\* be deleted and the board left while a gesture is in progress
InitGone ==
    /\ camera = InitCamera
    /\ rendered = camera
    /\ items = <<NewItem(1, 0, 0, ItemW, ItemH, 1)>>
    /\ frames = <<NewFrame(1, 0, 0, FrameW, FrameH, 1)>>
    /\ activeBoardId = 1
    /\ boards = <<1, 2>>
    /\ shelved = [b \in BoardIds |->
                     IF b = 2 THEN [notes |-> <<[id |-> 3, frameId |-> NullId]>>,
                                    items |-> <<NewItem(3, 0, 0, ItemW, ItemH, 1)>>,
                                    frames |-> <<NewFrame(4, 0, 0, FrameW, FrameH, 1)>>]
                     ELSE EmptyData]
    /\ InitApp(MaxEvents)

NextGone ==
    \/ PressHeaderStep({1}, {<<0, 0>>})
    \/ PressHandleStep({1}, {<<0, 0>>})
    \/ MoveStep({1}, Points)
    \/ UpStep({1})
    \/ Render
    \/ DeleteNoteStep
    \/ SelectBoardStep

SpecGone == InitGone /\ [][NextGone]_vars

FocusStep == \E editable \in BOOLEAN : FocusChange(editable)

\* one pointer, the Space key and the keyboard focus on a board with one note
\* and one frame
InitPan ==
    /\ camera = InitCamera
    /\ rendered = camera
    /\ items = <<NewItem(1, 0, 0, ItemW, ItemH, 1)>>
    /\ frames = <<NewFrame(1, 0, 0, FrameW, FrameH, 1)>>
    /\ InitRest(MaxEvents)

NextPan ==
    \/ HandleKeyDown
    \/ HandleKeyUp
    \/ FocusStep
    \/ PressCanvasStep({1}, {<<0, 0>>})
    \/ PressBodyStep({1})
    \/ PressHeaderStep({1}, {<<0, 0>>})
    \/ PressHandleStep({1}, {<<0, 0>>})
    \/ MoveStep({1}, Points)
    \/ UpStep({1})
    \/ RafCallback
    \/ Render

SpecPan == InitPan /\ [][NextPan]_vars

\* camera operations at several scales, next to a note drag that fills the
\* save queue
InitView ==
    /\ camera \in {[InitCamera EXCEPT !.scale = s] : s \in InitScales}
    /\ rendered = camera
    /\ items = <<NewItem(1, Grid, Grid, ItemW, ItemH, 1)>>
    /\ frames = <<NewFrame(1, 0, 0, FrameW, FrameH, 1)>>
    /\ InitRest(MaxEvents)

NextView ==
    \/ WheelStep({<<Grid, 0>>})
    \/ HandleKeyDown
    \/ HandleKeyUp
    \/ PressCanvasStep({1}, {<<0, 0>>})
    \/ PressHeaderStep({1}, {<<0, 0>>})
    \/ MoveStep({1}, Points)
    \/ UpStep({1})
    \/ CenterStep
    \/ RafCallback
    \/ Render

SpecView == InitView /\ [][NextView]_vars

\* note deletion next to the debounced save queue, on a board with two notes
InitDelete ==
    /\ camera = InitCamera
    /\ rendered = camera
    /\ items = <<NewItem(1, 0, 0, ItemW, ItemH, 1), NewItem(2, Grid, Grid, ItemW, ItemH, 2)>>
    /\ frames = <<>>
    /\ InitRest(MaxEvents)

NextDelete ==
    \/ PressNoteHeaderStep({1}, {<<0, 0>>})
    \/ MoveStep({1}, Points)
    \/ UpStep({1})
    \/ Render
    \/ DeleteNoteStep
    \/ FlushTimerStep
    \/ HostSignalStep

SpecDelete == InitDelete /\ [][NextDelete]_vars

\* cached frame ids a note can carry: none, or one of the first two frames
LiveCaches == {NullId, 1, 2}

\* the arguments of getLiveNotesInFrame: three notes with any cached frame
\* ids, the third without an item; two minimum-size items, listed in the
\* opposite order, anywhere on the resolver's spots; two nested frames and one
\* beside them
InitLive ==
    /\ camera = InitCamera
    /\ rendered = camera
    /\ \E s \in ResolverSpots, t \in ResolverSpots :
           items = <<NewItem(2, t[1], t[2], MIN_W, MIN_H, 2),
                     NewItem(1, s[1], s[2], MIN_W, MIN_H, 1)>>
    /\ frames = <<NewFrame(1, 0, 0, FrameW, FrameH, 1),
                  NewFrame(2, 200, 100, MIN_W, MIN_H, 2),
                  NewFrame(3, FrameW, 0, FrameW, FrameH, 3)>>
    /\ \E c \in [1 .. 3 -> LiveCaches] :
           notes = [k \in 1 .. 3 |-> [id |-> k, frameId |-> c[k]]]
    /\ storeNotes = notes
    /\ activeBoardId = 1
    /\ boards = <<1>>
    /\ shelved = [b \in BoardIds |-> EmptyData]
    /\ uncaught = FALSE
    /\ calls = <<>>
    /\ rafPending = FALSE
    /\ rafQueue = 0
    /\ isSpaceDown = FALSE
    /\ pan = Null /\ drag = Null /\ resize = Null
    /\ frameDrag = Null /\ frameResize = Null
    /\ down = {}
    /\ keyboard = [held |-> FALSE, editable |-> FALSE]
    /\ itemsRef = items
    /\ framesRef = frames
    /\ pending = <<>>
    /\ saveTimer = FALSE
    /\ saveTimers = <<>>
    /\ storeItems = items
    /\ storeFrames = frames
    /\ resolved = NullId
    /\ liveNotes = <<>>
    /\ ev = [type |-> "mount", pointerId |-> 0, x |-> 0, y |-> 0, target |-> NullId,
            dir |-> "", deltaY |-> 0, left |-> -1, clock |-> 2]

QueryStep == \E k \in 1 .. Len(frames) : QueryLiveNotes(frames[k].id)

NextLive == QueryStep

SpecLive == InitLive /\ [][NextLive]_vars

\* frame deletion on boards with one note and up to three frames: the note
\* is picked up and put down where it is, frames are deleted from the store,
\* the page is loaded again and membership is queried
NextFrameDelete ==
    \/ PressNoteHeaderStep({1}, {<<0, 0>>})
    \/ UpStep({1})
    \/ \E k \in 1 .. Len(storeFrames) : DeleteFrame(storeFrames[k].id)
    \/ \E quota \in BOOLEAN : Reload(quota)
    \/ ResolveStep

SpecFrameDelete == InitResolver /\ [][NextFrameDelete]_vars

\* the batches of at most MaxBatch versions of two items, one of them not in
\* the store; a batch may name an id more than once
BatchItems == {NewItem(id, x, 0, ItemW, ItemH, 1) : id \in {1, 3}, x \in {0, Grid}}

Batches == UNION {[1 .. n -> BatchItems] : n \in 0 .. MaxBatch}

\* the batched store write on a board whose store holds two items
InitUpsert ==
    /\ camera = InitCamera
    /\ rendered = camera
    /\ items = <<NewItem(2, 0, 0, ItemW, ItemH, 1), NewItem(1, Grid, Grid, ItemW, ItemH, 2)>>
    /\ frames = <<>>
    /\ InitRest(-1)

NextUpsert == \E updates \in Batches, quota \in BOOLEAN : UpsertBatch(updates, quota)

SpecUpsert == InitUpsert /\ [][NextUpsert]_vars

\* the time between two readings of the clock, in ms: the next millisecond,
\* or as long as the distance between the two z-index bands
Elapsed == {1, FrameZBase - NoteZBase}

\* entities are created and brought to the front on a board that starts with
\* its welcome note
InitCreate ==
    /\ camera = InitCamera
    /\ rendered = camera
    /\ items = <<NewItem(1, 120, 120, ItemW, ItemH, 1)>>
    /\ frames = <<>>
    /\ InitRest(MaxEvents)

NextCreate ==
    \/ \E ms \in Elapsed, quota \in BOOLEAN : handleCreateNoteAt(0, 0, ms, quota)
    \/ \E ms \in Elapsed : handleCreateFrame(ms)
    \/ PressBodyStep({1})
    \/ PressNoteHeaderStep({1}, {<<0, 0>>})
    \/ UpStep({1})
    \/ RafCallback

SpecCreate == InitCreate /\ [][NextCreate]_vars

\* a pan of the mouse with Cmd-wheel zooms in between: the wheel event is
\* dispatched at the cursor, which is where the last pointer event left it
CursorEvents == {"press-canvas", "pointermove", "wheel"}

InitPanZoom ==
    /\ camera = InitCamera
    /\ rendered = camera
    /\ items = <<NewItem(1, Grid, Grid, ItemW, ItemH, 1)>>
    /\ frames = <<NewFrame(1, 0, 0, FrameW, FrameH, 1)>>
    /\ InitRest(MaxEvents + 1)

NextPanZoom ==
    \/ HandleKeyDown
    \/ HandleKeyUp
    \/ PressCanvasStep({1}, Points)
    \/ \E deltaY \in -MaxWheel .. MaxWheel, metaKey \in BOOLEAN :
          /\ ev.type \in CursorEvents
          /\ HandleWheel(ev.x, ev.y, deltaY, metaKey)
    \/ MoveStep({1}, Points)
    \/ UpStep({1})
    \/ RafCallback

SpecPanZoom == InitPanZoom /\ [][NextPanZoom]_vars


\* ------------------------------------------------------------------ claims

\* C1: in every reachable state the camera scale lies in [0.25, 2.5],
\* whatever wheel zooms, pans and center-on operations came before.
C1_ScaleInRange == RLe(MIN_SCALE, camera.scale) /\ RLe(camera.scale, MAX_SCALE)

\* a zoom-in has been cut off at the upper limit
C1_Witness == ev.type = "wheel" /\ ev.deltaY < 0 /\ camera.scale = MAX_SCALE

\* C2: a zoom keeps the world point under the cursor at the cursor: mapping
\* the cursor to the world with the camera before the wheel event and back to
\* the screen with the camera after it gives the cursor again.
C2_ZoomKeepsCursor ==
    [][ev'.type = "wheel" =>
        LET mouseX == R(ev'.x - RectLeft)
            mouseY == R(ev'.y - RectTop)
            w == screenToWorld(mouseX, mouseY, camera)
        IN  worldToScreen(w.x, w.y, camera') = [x |-> mouseX, y |-> mouseY]]_vars

\* a zoom about a cursor away from the origin was cut off by the clamp
C2_Witness ==
    /\ ev.type = "wheel" /\ ev.x = Grid /\ ev.deltaY < 0
    /\ camera.scale = MAX_SCALE /\ camera.tx # R(0)

\* C3: a zoom whose clamped scale equals the current scale changes neither
\* the camera nor the pending visual commit.
C3_SaturatedZoomNoOp ==
    [][ev'.type = "wheel" /\ nextScaleOf(camera, ev'.deltaY) = camera.scale =>
        UNCHANGED <<camera, rafPending, rendered>>]_vars

\* a zoom-in arrived at the upper limit with no visual commit pending
C3_Witness ==
    /\ ev.type = "wheel" /\ ev.deltaY < 0
    /\ camera.scale = MAX_SCALE /\ ~rafPending

\* C4: every note item and every frame has width >= 320 and height >= 220 in
\* every reachable state, whatever resize moves came before.
C4_MinSize ==
    /\ \A k \in 1 .. Len(items) :
           RLe(R(MIN_W), items[k].width) /\ RLe(R(MIN_H), items[k].height)
    /\ \A k \in 1 .. Len(frames) :
           RLe(R(MIN_W), frames[k].width) /\ RLe(R(MIN_H), frames[k].height)

\* a note created at 520 wide was pulled past the minimum and stopped at it
C4_Witness ==
    /\ ev.type = "pointermove" /\ resize # Null /\ Len(items) = 1
    /\ resize.startW = R(ItemW) /\ camera.scale = Rat(1, 2)
    /\ ev.x - resize.startPointerX = Grid
    /\ items[1].width = R(MIN_W)

\* the rectangle of entity e has the edges opposite to handle rs.dir where the
\* gesture record rs found them
Anchored(rs, e) ==
    /\ DirHas(rs.dir, "w") => RAdd(e.x, e.width) = RAdd(rs.startX, rs.startW)
    /\ DirHas(rs.dir, "e") => e.x = rs.startX
    /\ DirHas(rs.dir, "n") => RAdd(e.y, e.height) = RAdd(rs.startY, rs.startH)
    /\ DirHas(rs.dir, "s") => e.y = rs.startY

\* C5: after every move of a resize gesture the edge opposite the dragged
\* handle is where the gesture found it, for notes and for frames; a note at
\* (0, 0, 320, 220) whose 'w' handle is pulled inward by 200 px at scale 1
\* keeps width 320 and x 0.
C5_OppositeEdgeAnchored ==
    [][ev'.type = "pointermove" =>
        /\ resize # Null /\ resize.pointerId = ev'.pointerId
              /\ find(items', resize.itemId) > 0 =>
            LET it == items'[find(items', resize.itemId)]
            IN  /\ Anchored(resize, it)
                /\ (/\ resize.dir = "w" /\ camera.scale = R(1)
                     /\ resize.startX = R(0) /\ resize.startW = R(320)
                     /\ ev'.x - resize.startPointerX = 200)
                    => it.width = R(320) /\ it.x = R(0)
        /\ frameResize # Null /\ frameResize.pointerId = ev'.pointerId
              /\ find(frames', frameResize.itemId) > 0 =>
            Anchored(frameResize, frames'[find(frames', frameResize.itemId)])]_vars

\* the 'w' handle of a note at the minimum width was pulled inward by Grid px
\* at scale 1
C5_Witness ==
    /\ ev.type = "pointermove" /\ resize # Null /\ Len(items) = 1
    /\ resize.dir = "w" /\ camera.scale = R(1)
    /\ resize.startX = R(0) /\ resize.startW = R(MIN_W)
    /\ ev.x - resize.startPointerX = Grid
    /\ items[1].width = R(MIN_W) /\ items[1].x = R(0)

\* the position a drag gesture record g gives for the pointer at (cx, cy)
DragTarget(g, cx, cy) ==
    [x |-> RAdd(g.startX, RDiv(R(cx - g.startPointerX), camera.scale)),
     y |-> RAdd(g.startY, RDiv(R(cy - g.startPointerY), camera.scale))]

\* C6: a drag places the note or frame at start + (pointer - start pointer) /
\* scale: the press records the entity's position and the pointer, no move
\* changes that record, and every move puts the entity at the position the
\* record gives for the pointer, whatever moves came before.
C6_DragPathIndependent ==
    [][/\ ev'.type = "press-note-header" =>
            LET it == items'[find(items', ev'.target)]
            IN  /\ drag'.startX = it.x /\ drag'.startY = it.y
                /\ drag'.startPointerX = ev'.x /\ drag'.startPointerY = ev'.y
       /\ ev'.type = "press-frame-header" =>
            LET f == frames'[find(frames', ev'.target)]
            IN  /\ frameDrag'.startX = f.x /\ frameDrag'.startY = f.y
                /\ frameDrag'.startPointerX = ev'.x /\ frameDrag'.startPointerY = ev'.y
       /\ ev'.type \in {"pointermove", "render"} => UNCHANGED <<drag, frameDrag, camera>>
       /\ ev'.type = "pointermove" =>
            /\ drag # Null /\ drag.pointerId = ev'.pointerId
                  /\ find(items', drag.itemId) > 0 =>
                LET it == items'[find(items', drag.itemId)]
                    t == DragTarget(drag, ev'.x, ev'.y)
                IN  it.x = t.x /\ it.y = t.y
            /\ frameDrag # Null /\ frameDrag.pointerId = ev'.pointerId
                  /\ find(frames', frameDrag.itemId) > 0 =>
                LET f == frames'[find(frames', frameDrag.itemId)]
                    t == DragTarget(frameDrag, ev'.x, ev'.y)
                IN  f.x = t.x /\ f.y = t.y]_vars

\* a drag reached its target after an earlier move to another point had been
\* delivered and rendered
C6_Witness ==
    /\ ev.type = "pointermove" /\ drag # Null /\ Len(items) = 1
    /\ camera.scale = Rat(5, 2)
    /\ ev.x - drag.startPointerX = Grid /\ ev.y - drag.startPointerY = Grid
    /\ items[1].x = RAdd(drag.startX, RDiv(R(Grid), camera.scale))
    /\ items[1].y = RAdd(drag.startY, RDiv(R(Grid), camera.scale))
    /\ itemsRef[1].x # drag.startX /\ itemsRef[1].y # items[1].y

\* the centre of item lies in the rectangle of frame f, borders included
CenterIn(item, f) ==
    LET cx2 == RAdd(RMul(R(2), item.x), item.width)
        cy2 == RAdd(RMul(R(2), item.y), item.height)
    IN  /\ RLe(RMul(R(2), f.x), cx2) /\ RLe(cx2, RMul(R(2), RAdd(f.x, f.width)))
        /\ RLe(RMul(R(2), f.y), cy2) /\ RLe(cy2, RMul(R(2), RAdd(f.y, f.height)))

\* id is null, or names a frame of frs that contains the centre of item and
\* is no larger than any frame of frs that contains it
SmallestContaining(id, item, frs) ==
    id # NullId =>
        \E k \in 1 .. Len(frs) :
            /\ frs[k].id = id /\ CenterIn(item, frs[k])
            /\ \A j \in 1 .. Len(frs) :
                   CenterIn(item, frs[j]) =>
                       RLe(RMul(frs[k].width, frs[k].height),
                           RMul(frs[j].width, frs[j].height))

\* C7: when several frames contain the item's centre, the resolver returns a
\* frame whose area is at most the area of every frame containing the centre,
\* both in a membership query and in the assignment at the end of a drag.
C7_SmallestAreaWins ==
    [][/\ ev'.type = "resolve" =>
            SmallestContaining(resolved', items[find(items, ev'.target)], frames)
       /\ (/\ ev'.type \in {"pointerup", "pointercancel"}
           /\ drag # Null /\ drag.pointerId = ev'.pointerId
           /\ find(itemsRef, drag.itemId) > 0) =>
            LET it == itemsRef[find(itemsRef, drag.itemId)]
            IN  /\ Len(notes') = Len(notes)
                /\ \A k \in 1 .. Len(notes) :
                       notes'[k].id = it.noteId =>
                           SmallestContaining(notes'[k].frameId, it, framesRef)]_vars

\* the larger frame comes first, the smaller frame lies inside it, the centre
\* is in both, and the query answered the smaller frame
C7_Witness ==
    /\ ev.type = "resolve" /\ Len(frames) >= 2 /\ Len(items) = 1
    /\ CenterIn(items[1], frames[1]) /\ CenterIn(items[1], frames[2])
    /\ RLt(RMul(frames[2].width, frames[2].height), RMul(frames[1].width, frames[1].height))
    /\ RLe(frames[1].x, frames[2].x)
    /\ RLe(RAdd(frames[2].x, frames[2].width), RAdd(frames[1].x, frames[1].width))
    /\ RLe(frames[1].y, frames[2].y)
    /\ RLe(RAdd(frames[2].y, frames[2].height), RAdd(frames[1].y, frames[1].height))
    /\ resolved = frames[2].id

\* C8: a membership query answers null exactly when no frame contains the
\* item's centre, borders included, and otherwise the id of a frame that
\* contains it; the query changes neither the items nor the frames.
C8_NullIffNoFrame ==
    [][ev'.type = "resolve" =>
        LET it == items[find(items, ev'.target)]
        IN  /\ resolved' = NullId <=> ~ \E k \in 1 .. Len(frames) : CenterIn(it, frames[k])
            /\ resolved' # NullId =>
                   \E k \in 1 .. Len(frames) :
                       frames[k].id = resolved' /\ CenterIn(it, frames[k])
            /\ UNCHANGED <<items, itemsRef, frames, framesRef, notes>>]_vars

\* the centre lies exactly on the corner of the only frame, and the query
\* answered that frame
C8_Witness ==
    /\ ev.type = "resolve" /\ Len(frames) = 1 /\ Len(items) = 1
    /\ RAdd(items[1].x, RHalf(items[1].width)) = frames[1].x
    /\ RAdd(items[1].y, RHalf(items[1].height)) = frames[1].y
    /\ resolved = frames[1].id

NotePresses == {"press-note", "press-note-header", "press-note-handle"}
FramePresses == {"press-frame-header", "press-frame-handle"}

\* C9: after a press has brought a note (a frame) to the front, its z is
\* strictly greater than the z of every other note (frame).
C9_PressedIsStrictlyTopmost ==
    [][/\ ev'.type \in NotePresses =>
            /\ Len(items') = Len(items)
            /\ \A k, j \in 1 .. Len(items) :
                   items'[k].id = ev'.target /\ j # k => items'[k].z > items'[j].z
       /\ ev'.type \in FramePresses =>
            /\ Len(frames') = Len(frames)
            /\ \A k, j \in 1 .. Len(frames) :
                   frames'[k].id = ev'.target /\ j # k => frames'[k].z > frames'[j].z]_vars

\* the note that was below the other one was pressed and is now above it
C9_Witness ==
    /\ ev.type \in NotePresses /\ ev.target = 1 /\ Len(items) = 2
    /\ storeItems[1].z < storeItems[2].z
    /\ items[1].z > items[2].z

\* C10: bringing to the front an entity whose z already is the largest of its
\* collection changes no z, emits no update and queues nothing for
\* persistence.
C10_TopmostPressIsNoOp ==
    [][/\ (/\ ev'.type \in NotePresses
           /\ \A j \in 1 .. Len(items) :
                  items[j].z <= items[find(items, ev'.target)].z)
          => UNCHANGED <<items, pending, saveTimer>>
       /\ (/\ ev'.type \in FramePresses
           /\ \A j \in 1 .. Len(frames) :
                  frames[j].z <= frames[find(frames, ev'.target)].z)
          => UNCHANGED <<frames, storeFrames>>]_vars

\* ids that notes and their items can have
EntityIds == 1 .. 10 * MaxBoards

GestureEvents == NotePresses \cup FramePresses \cup {"pointermove"}

\* the step that ends in event e runs flushWhiteboardSaves
Flushing(e) ==
    \/ e.type \in {"timer", "beforeunload", "hidden", "create-board"}
    \/ e.type = "select-board" /\ e.target # activeBoardId
    \/ e.type = "delete-board" /\ e.target = activeBoardId

WriteCalls(cs) == SelectSeq(cs, LAMBDA c : c.op = "batchUpsertWhiteboardItems")

Slot(seq, id) == SelectSeq(seq, LAMBDA e : e.id = id)

\* C11: the pending saves hold at most one slot per item id; a gesture event
\* that changes an item leaves that item's new value in its slot and touches
\* no other slot's value; a flush makes exactly one batched write call, whose
\* payload is the pending slots, and no other step makes a batched write call.
C11_FlushWritesLastPerId ==
    [][/\ \A id \in EntityIds :
            /\ Len(Slot(pending', id)) <= 1
            /\ (ev'.type \in GestureEvents /\ Slot(items', id) # Slot(items, id))
                   => Slot(pending', id) = Slot(items', id)
            /\ (ev'.type \in GestureEvents /\ Slot(pending', id) # Slot(pending, id))
                   => Slot(pending', id) = Slot(items', id)
       /\ IF Flushing(ev')
          THEN /\ Len(WriteCalls(calls')) = 1
               /\ WriteCalls(calls')[1].payload = pending
               /\ \A id \in EntityIds : Len(Slot(pending, id)) <= 1
          ELSE /\ WriteCalls(calls') = <<>>
               /\ ev'.type \notin GestureEvents => pending' = pending]_vars

\* the timer flushed a single slot for note 1 that had been queued by a press
\* (z) and queued again by a move (x), and the store took it
C11_Witness ==
    /\ ev.type = "timer" /\ Len(calls) = 1 /\ calls[1].ok
    /\ Len(calls[1].payload) = 1
    /\ calls[1].payload[1].id = 1
    /\ calls[1].payload[1].z # 1 /\ calls[1].payload[1].x # R(0)
    /\ Len(storeItems) = 2 /\ storeItems[1] = calls[1].payload[1]
    /\ pending = <<>>

\* the persisted items of the board that was active before the step
OldBoardItems == IF activeBoardId' = activeBoardId THEN storeItems'
                 ELSE shelved'[activeBoardId].items

\* C12: a flush, by timer or forced, leaves the pending saves empty and the
\* timer handle null, makes one batched write call that carries every slot
\* that was pending, and (unless the store refuses the write) every such slot
\* is in the board's persisted items afterwards; a timer is never left armed
\* over an empty queue, so no timer fires a second flush for flushed entries.
C12_FlushDrains ==
    [][/\ Flushing(ev') =>
            /\ pending' = <<>>
            /\ saveTimer' = FALSE
            /\ Len(WriteCalls(calls')) = 1
            /\ \A k \in 1 .. Len(pending) :
                   /\ \E j \in 1 .. Len(WriteCalls(calls')[1].payload) :
                          WriteCalls(calls')[1].payload[j] = pending[k]
                   /\ WriteCalls(calls')[1].ok =>
                          Slot(OldBoardItems, pending[k].id) = <<pending[k]>>
       /\ saveTimer' => pending' # <<>>]_vars

\* a hidden document forced a flush of a queued slot while the timer was armed
C12_Witness ==
    /\ ev.type = "hidden" /\ Len(calls) = 1 /\ calls[1].ok
    /\ Len(calls[1].payload) > 0
    /\ pending = <<>> /\ ~saveTimer
    /\ \A k \in 1 .. Len(calls[1].payload) :
           Slot(storeItems, calls[1].payload[k].id) = <<calls[1].payload[k]>>

\* the host events that force a flush
Forced(e) ==
    \/ e.type \in {"beforeunload", "hidden", "create-board"}
    \/ e.type = "select-board" /\ e.target # activeBoardId
    \/ e.type = "delete-board" /\ e.target = activeBoardId

\* C13: when the view is hidden, the page unloads or the active board changes
\* (select, create, delete of the active board), the handler flushes before it
\* switches: the one write call names the board that was active before the
\* event, afterwards nothing is pending, and (unless the store refuses the
\* write) every entry that was pending is in that board's persisted items and
\* in no other board's.
C13_ForcedFlushBeforeSwitch ==
    [][Forced(ev') =>
           /\ pending' = <<>>
           /\ saveTimer' = FALSE
           /\ Len(WriteCalls(calls')) = 1
           /\ WriteCalls(calls')[1].boardId = activeBoardId
           /\ WriteCalls(calls')[1].payload = pending
           /\ \A k \in 1 .. Len(pending) :
                  /\ WriteCalls(calls')[1].ok =>
                         Slot(OldBoardItems, pending[k].id) = <<pending[k]>>
                  /\ activeBoardId' # activeBoardId =>
                         Slot(storeItems', pending[k].id) = <<>>]_vars

\* selecting board 2 flushed a queued slot of board 1 into board 1's items
C13_Witness ==
    /\ ev.type = "select-board" /\ activeBoardId = 2
    /\ Len(calls) = 1 /\ calls[1].ok /\ calls[1].boardId = 1
    /\ Len(calls[1].payload) > 0
    /\ Slot(shelved[1].items, calls[1].payload[1].id) = <<calls[1].payload[1]>>
    /\ Slot(storeItems, calls[1].payload[1].id) = <<>>
    /\ pending = <<>>

\* the timer started by scheduleWhiteboardSave does expire
SpecSaveFair == SpecSave /\ WF_vars(FlushTimerStep)

\* C14: no enqueued geometry is lost.  A slot leaves the pending saves only by
\* being replaced by a newer enqueue of the same id or by a flush whose write
\* call carries it (and, unless the store refuses the write, the board's
\* persisted items then hold it); while a slot is pending the timer is armed;
\* and a pending slot is always followed by a flush, the timer's at the latest.
C14_NoEnqueuedGeometryLost ==
    /\ [][\A k \in 1 .. Len(pending) :
              Slot(pending', pending[k].id) # <<pending[k]>> =>
                  \/ /\ ev'.type \in GestureEvents
                     /\ Len(Slot(pending', pending[k].id)) = 1
                     /\ Slot(pending', pending[k].id) = Slot(items', pending[k].id)
                  \/ /\ Flushing(ev')
                     /\ Len(WriteCalls(calls')) = 1
                     /\ Slot(WriteCalls(calls')[1].payload, pending[k].id) = <<pending[k]>>
                     /\ WriteCalls(calls')[1].ok =>
                            Slot(OldBoardItems, pending[k].id) = <<pending[k]>>]_vars
    /\ [](pending # <<>> => saveTimer)
    /\ (pending # <<>>) ~> (pending = <<>> /\ Len(WriteCalls(calls)) = 1)

\* the page unloaded with a dragged note queued: the write carried the note's
\* geometry as it is in memory, and the store holds it
C14_Witness ==
    /\ ev.type = "beforeunload" /\ Len(calls) = 1 /\ calls[1].ok
    /\ Slot(calls[1].payload, 1) = Slot(items, 1)
    /\ Slot(storeItems, 1) = Slot(items, 1)
    /\ Len(Slot(items, 1)) = 1 /\ Slot(items, 1)[1].x # R(0)
    /\ pending = <<>>

\* C15: a store write that fails is swallowed.  No exception leaves any
\* handler; on a flush whose write the store refuses, the gesture records and
\* the camera are unchanged, the in-memory entities are unchanged unless the
\* handler switches the board, nothing is kept for a retry (pending empty,
\* timer null) and the persisted items are as before the write.
C15_FailedWriteSwallowed ==
    [][/\ ~uncaught'
       /\ (Flushing(ev') /\ Len(WriteCalls(calls')) = 1 /\ ~WriteCalls(calls')[1].ok) =>
              /\ UNCHANGED <<camVars, gestVars>>
              /\ activeBoardId' = activeBoardId =>
                     UNCHANGED <<items, frames, notes, storeItems, storeNotes, storeFrames>>
              /\ OldBoardItems = IF ev'.type = "delete-board" THEN <<>> ELSE storeItems
              /\ pending' = <<>>
              /\ saveTimer' = FALSE]_vars

\* the timer's write was refused in the middle of a drag: the drag goes on,
\* memory holds the dragged geometry, the store the old one, nothing is queued
C15_Witness ==
    /\ ev.type = "timer" /\ Len(calls) = 1 /\ ~calls[1].ok
    /\ Len(calls[1].payload) = 1 /\ calls[1].payload = Slot(items, 1)
    /\ drag # Null
    /\ Len(Slot(storeItems, 1)) = 1 /\ Slot(storeItems, 1) # Slot(items, 1)
    /\ pending = <<>> /\ ~saveTimer /\ ~uncaught

\* the entry of the note in a notes collection
NoteOf(ns, noteId) == SelectSeq(ns, LAMBDA n : n.id = noteId)

\* the step ends a drag of an item that is still in the collection
DragExit(e) ==
    /\ e.type \in {"pointerup", "pointercancel"}
    /\ drag # Null /\ drag.pointerId = e.pointerId
    /\ find(itemsRef, drag.itemId) > 0

\* C16: frame membership is reassigned only at the end of a drag of an item.
\* A step that is not such an end (a press, a move, a render) emits no frame
\* assignment and leaves every note's frameId as it is, whatever frame
\* boundaries the item passes; the end of the drag emits exactly one
\* assignment, for the dragged item's note, with the one frame id the
\* resolver returns, and the note then carries that frame id.
C16_AssignOnlyAtDragEnd ==
    [][IF DragExit(ev')
       THEN LET item == itemsRef[find(itemsRef, drag.itemId)]
            IN  /\ Len(calls') = 1
                /\ calls'[1].op = "onAssignNoteToFrame"
                /\ calls'[1].noteId = item.noteId
                /\ calls'[1].frameId = findContainingFrameIdForItem(item)
                /\ Len(NoteOf(notes', item.noteId)) = 1
                /\ NoteOf(notes', item.noteId)[1].frameId = calls'[1].frameId
                /\ drag' = Null
       ELSE /\ calls' = <<>>
            /\ notes' = notes
            /\ storeNotes' = storeNotes]_vars

\* a pointer-up ended a drag that took the note out of the small frame into
\* the large one: one assignment, and the note is now in frame 2
C16_Witness ==
    /\ ev.type = "pointerup" /\ drag = Null
    /\ Len(calls) = 1 /\ calls[1].op = "onAssignNoteToFrame"
    /\ calls[1].noteId = 1 /\ calls[1].frameId = 2
    /\ notes[1].frameId = 2 /\ storeNotes[1].frameId = 2
    /\ items[1].x = R(Grid)

\* C17: the frame id assigned when a pointer-up ends a drag is the resolver's
\* answer for the item's position as the last pointer-move set it (the
\* position in the items collection), whether or not a render and its effects
\* ran between that move and the pointer-up.
C17_UpResolvesLastMove ==
    [][(DragExit(ev') /\ ev'.type = "pointerup" /\ find(items, drag.itemId) > 0) =>
           /\ Len(calls') = 1
           /\ calls'[1].frameId =
                  getLiveFrameIdForItem(items[find(items, drag.itemId)], frames)]_vars

\* C18: a pointer-cancel of the owning pointer ends the gesture and commits
\* nothing: the gesture record is cleared, no frame assignment is emitted, no
\* note is created or changed, and items and frames keep the geometry the last
\* move gave them.
C18_CancelCommitsNothing ==
    [][(/\ ev'.type = "pointercancel"
        /\ \E g \in {drag, resize, frameDrag, frameResize, pan} :
               g # Null /\ g.pointerId = ev'.pointerId) =>
           /\ \A g \in {drag', resize', frameDrag', frameResize', pan'} :
                  g = Null \/ g.pointerId # ev'.pointerId
           /\ calls' = <<>>
           /\ notes' = notes
           /\ storeNotes' = storeNotes
           /\ items' = items
           /\ frames' = frames]_vars

\* the gesture record g belongs to the pointer of event e
Owned(g, e) == g # Null /\ g.pointerId = e.pointerId

\* a move, up or cancel leaves the record g as the claim says: cleared by the
\* up or cancel of its pointer, untouched otherwise, never started
Retired(g, h, e) ==
    IF Owned(g, e) /\ e.type # "pointermove" THEN h = Null ELSE h = g

\* C19: every gesture (pan, item drag, item resize, frame drag, frame resize)
\* returns to Idle on the pointer-up or pointer-cancel of its own pointer, and
\* a move, up or cancel of any other pointer is ignored: it leaves the gesture
\* records, the items, the frames, the notes, the save queue and the camera
\* as they are.
C19_OwnPointerOnly ==
    [][ev'.type \in {"pointermove", "pointerup", "pointercancel"} =>
           /\ Retired(pan, pan', ev')
           /\ Retired(drag, drag', ev')
           /\ Retired(resize, resize', ev')
           /\ Retired(frameDrag, frameDrag', ev')
           /\ Retired(frameResize, frameResize', ev')
           /\ (~Owned(drag, ev') /\ ~Owned(resize, ev')) =>
                  UNCHANGED <<items, pending, saveTimer, notes, storeNotes>> /\ calls' = <<>>
           /\ (~Owned(frameDrag, ev') /\ ~Owned(frameResize, ev')) =>
                  UNCHANGED <<frames, storeFrames>>
           /\ ~Owned(pan, ev') => UNCHANGED <<camera, rafPending>>]_vars

\* pointer 1 drags the note; a move of pointer 2 to another place left the
\* drag record and the note where they were
C19_Witness ==
    /\ ev.type = "pointermove" /\ ev.pointerId = 2
    /\ drag # Null /\ drag.pointerId = 1
    /\ ev.x # drag.startPointerX
    /\ Len(items) = 1 /\ items[1].x = drag.startX /\ items[1].y = drag.startY

\* the target of the gesture record g is no longer in the collection seq
Gone(g, seq) == g # Null /\ find(seq, g.itemId) = 0

\* C20: once the target of a drag or resize has been removed from its
\* collection, every later move of the gesture is a no-op (no entity is
\* updated or re-created, nothing is queued or written, no exception leaves
\* the handler, the gesture record stays), and the next pointer-up of the
\* gesture's pointer returns it to Idle without a frame assignment.
C20_RemovedTargetMovesAreNoOps ==
    [][/\ (/\ ev'.type = "pointermove"
           /\ \E g \in {drag, resize} : Owned(g, ev') /\ Gone(g, items)) =>
              /\ UNCHANGED <<items, pending, saveTimer, storeItems, notes, storeNotes,
                             drag, resize>>
              /\ calls' = <<>> /\ ~uncaught'
       /\ (/\ ev'.type = "pointermove"
           /\ \E g \in {frameDrag, frameResize} : Owned(g, ev') /\ Gone(g, frames)) =>
              /\ UNCHANGED <<frames, storeFrames, frameDrag, frameResize>>
              /\ calls' = <<>> /\ ~uncaught'
       /\ (/\ ev'.type = "pointerup"
           /\ \/ \E g \in {drag, resize} : Owned(g, ev') /\ Gone(g, items)
              \/ \E g \in {frameDrag, frameResize} : Owned(g, ev') /\ Gone(g, frames)) =>
              /\ drag' = Null /\ resize' = Null /\ frameDrag' = Null /\ frameResize' = Null
              /\ UNCHANGED <<items, frames, notes, pending>>
              /\ calls' = <<>> /\ ~uncaught']_vars

\* the dragged note was deleted, and a move to another place changed nothing
C20_Witness ==
    /\ ev.type = "pointermove" /\ ev.x # 0
    /\ drag # Null /\ drag.pointerId = ev.pointerId
    /\ find(items, drag.itemId) = 0 /\ find(itemsRef, drag.itemId) = 0
    /\ find(storeItems, drag.itemId) = 0
    /\ activeBoardId = 1 /\ ~uncaught

\* the number of gesture records among pan, drag, resize, frameDrag,
\* frameResize with values gs that pointer p owns
OwnedBy(gs, p) ==
    Cardinality({k \in 1 .. Len(gs) : gs[k] # Null /\ gs[k].pointerId = p})

\* the number of gesture records that differ between gs and hs
Changed(gs, hs) == Cardinality({k \in 1 .. Len(gs) : gs[k] # hs[k]})

Presses == NotePresses \cup FramePresses \cup {"press-canvas"}

\* C21: gestures are mutually exclusive per pointer.  In every state a pointer
\* owns at most one of the records pan, drag, resize, frameDrag, frameResize;
\* one press starts at most one gesture, and a press on a note or on a frame
\* header or handle leaves the pan record alone even while Space is held.
C21_OneGesturePerPointer ==
    [][/\ \A p \in 1 .. 2 :
              OwnedBy(<<pan', drag', resize', frameDrag', frameResize'>>, p) <= 1
       /\ ev'.type \in Presses =>
              /\ Changed(<<pan, drag, resize, frameDrag, frameResize>>,
                         <<pan', drag', resize', frameDrag', frameResize'>>) <= 1
              /\ \A g \in {pan', drag', resize', frameDrag', frameResize'} :
                     (g # Null /\ g.pointerId = ev'.pointerId) =>
                         g \notin {pan, drag, resize, frameDrag, frameResize}
       /\ ev'.type \in NotePresses \cup FramePresses => pan' = pan]_vars

\* with Space held, a press on the note's header started a drag and no pan
C21_Witness ==
    /\ ev.type = "press-note-header" /\ isSpaceDown
    /\ drag # Null /\ drag.pointerId = ev.pointerId
    /\ pan = Null /\ resize = Null /\ frameDrag = Null /\ frameResize = Null

\* C22: gestures held by different pointers are independent.  A press by one
\* pointer leaves every gesture record that another pointer owns as it is, so
\* that the other pointer's later moves still reach its target and its
\* pointer-up still ends its gesture.
C22_OtherPointersGestureIntact ==
    [][ev'.type \in Presses =>
           /\ (pan # Null /\ pan.pointerId # ev'.pointerId) => pan' = pan
           /\ (drag # Null /\ drag.pointerId # ev'.pointerId) => drag' = drag
           /\ (resize # Null /\ resize.pointerId # ev'.pointerId) => resize' = resize
           /\ (frameDrag # Null /\ frameDrag.pointerId # ev'.pointerId) =>
                  frameDrag' = frameDrag
           /\ (frameResize # Null /\ frameResize.pointerId # ev'.pointerId) =>
                  frameResize' = frameResize]_vars

\* C23: a pan is entered only by a press on the canvas background while the
\* Space key is held.  A step that starts a pan is such a press, made while
\* the key is physically down; a press on a note or on a frame's header or
\* handle starts no pan, held key or not.
C23_PanOnlyWithKeyOnBackground ==
    [][/\ (pan' # Null /\ pan' # pan) =>
              /\ ev'.type = "press-canvas"
              /\ pan'.pointerId = ev'.pointerId
              /\ keyboard.held
       /\ ev'.type \in NotePresses \cup FramePresses => pan' = pan]_vars

\* C24: releasing Space ends a pan without a pointer-up.  Every keyup of
\* Space leaves the pan record cleared, and a move made while the key is up
\* does not change the camera.
C24_KeyReleaseEndsPan ==
    [][/\ ev'.type = "keyup" => pan' = Null
       /\ (ev'.type = "pointermove" /\ ~keyboard.held) => camera' = camera]_vars

\* C25: camera commits are coalesced per animation frame while the camera
\* itself is updated at once.  A wheel event computes its scale from the
\* camera the previous event left, rendered or not; a step that changes the
\* camera leaves the rendered transform alone and leaves exactly one callback
\* requested; at most one callback is ever requested; the callback copies the
\* camera of that moment to the rendered transform and changes nothing else
\* of the camera; while the rendered transform differs from the camera a
\* callback is requested, and the camera is eventually rendered.
C25_CameraCommitsCoalesced ==
    /\ [][/\ ev'.type = "wheel" => camera'.scale = nextScaleOf(camera, ev'.deltaY)
          /\ camera' # camera => (rafPending' /\ rafQueue' = 1 /\ rendered' = rendered)
          /\ rafQueue' <= 1
          /\ rafPending' <=> rafQueue' = 1
          /\ ev'.type = "raf" => (rendered' = camera /\ camera' = camera /\ rafQueue' = 0)
          /\ rendered' # camera' => rafPending']_vars
    /\ (rendered # camera) ~> (rendered = camera)

\* two zoom steps arrived before the frame: one callback is requested, the
\* camera is two steps ahead of the rendered transform
C25_Witness ==
    /\ rafPending /\ rafQueue = 1
    /\ ev.type = "wheel"
    /\ rendered.scale = R(1)
    /\ camera.scale = MIN_SCALE

\* C26: camera operations touch only the camera.  A pan move sets the
\* translate to the translate at the pan's start plus the pointer's screen
\* delta since then and keeps the scale; a pan move, a zoom and a center-on
\* leave the items, the frames, the notes, the save queue and its timer and
\* everything persisted as they are, and make no call to the store.
C26_CameraOpsTouchOnlyCamera ==
    [][/\ (ev'.type = "pointermove" /\ Owned(pan, ev')) =>
              camera' = [tx |-> RAdd(pan.startTx, R(ev'.x - pan.startPointerX)),
                         ty |-> RAdd(pan.startTy, R(ev'.y - pan.startPointerY)),
                         scale |-> camera.scale]
       /\ (\/ ev'.type \in {"wheel", "center-note", "center-frame"}
           \/ ev'.type = "pointermove" /\ Owned(pan, ev')) =>
              /\ UNCHANGED <<items, frames, notes, pending, saveTimer,
                             storeItems, storeFrames, storeNotes, shelved>>
              /\ calls' = <<>>]_vars

\* a pan at half scale moved the translate by the pointer's screen delta
C26_Witness ==
    /\ ev.type = "pointermove" /\ pan # Null /\ pan.pointerId = ev.pointerId
    /\ ev.x # pan.startPointerX
    /\ camera.scale = Rat(1, 2)
    /\ camera.tx = RAdd(pan.startTx, R(ev.x - pan.startPointerX))
    /\ camera # rendered

\* the items of the collection seq that belong to note noteId
ItemsOfNote(seq, noteId) == SelectSeq(seq, LAMBDA i : i.noteId = noteId)

\* C27: an item is destroyed with its note.  After deleteNoteById neither the
\* items in memory nor the persisted items of the board hold an item of the
\* deleted note, and no flush, by timer or forced, writes an item to the
\* store whose note is not among the board's notes.
C27_DeletedNoteItemStaysDeleted ==
    [][/\ ev'.type = "delete-note" =>
              /\ ItemsOfNote(items', ev'.target) = <<>>
              /\ ItemsOfNote(storeItems', ev'.target) = <<>>
       /\ (Flushing(ev') /\ activeBoardId' = activeBoardId) =>
              \A k \in 1 .. Len(storeItems') :
                  NoteOf(notes, storeItems'[k].noteId) # <<>>]_vars

\* the ids of the notes of a sequence, in order
NoteIds(ns) == [k \in 1 .. Len(ns) |-> ns[k].id]

\* the notes with every cached frame id erased
Uncached(ns) == [k \in 1 .. Len(ns) |-> [ns[k] EXCEPT !.frameId = NullId]]

\* C28: getLiveNotesInFrame(F) is what resolving every item on its own and
\* filtering gives: it returns, in note order, exactly the notes that have an
\* item that getLiveFrameIdForItem resolves to F; the cached frameId of the notes plays no part (erasing every
\* cached value gives the same notes); and the results for two different
\* frames share no note.
C28_LiveNotesByResolution ==
    [][ev'.type = "live-notes" =>
           LET F == ev'.target
               inF(note) == \E k \in 1 .. Len(items) :
                                /\ items[k].noteId = note.id
                                /\ getLiveFrameIdForItem(items[k], frames) = F
           IN  /\ liveNotes' = SelectSeq(notes, LAMBDA note : inF(note))
               /\ NoteIds(liveNotes') =
                      NoteIds(getLiveNotesInFrame(F, Uncached(notes), items, frames))
               /\ \A j \in 1 .. Len(frames) :
                      frames[j].id # F =>
                          \A a \in 1 .. Len(liveNotes') :
                              \A b \in 1 .. Len(getLiveNotesInFrame(frames[j].id, notes,
                                                                    items, frames)) :
                                  getLiveNotesInFrame(frames[j].id, notes, items,
                                                      frames)[b].id # liveNotes'[a].id]_vars

\* both notes sit in the nested frame although their cached ids name other
\* frames; the note without an item is left out; note order is kept
C28_Witness ==
    /\ ev.type = "live-notes" /\ ev.target = 2
    /\ NoteIds(liveNotes) = <<1, 2>>
    /\ liveNotes[1].frameId = 1 /\ liveNotes[2].frameId = NullId
    /\ notes[3].frameId = 2

\* the largest z of a non-empty collection
TopZ(seq) == CHOOSE z \in {seq[k].z : k \in 1 .. Len(seq)} :
                 \A k \in 1 .. Len(seq) : seq[k].z <= z

\* C29: notes and frames are independent z-spaces.  A press on a note gives
\* the note's item the largest item z plus one, whatever the frames' z are,
\* and changes no other item and no frame; a press on a frame gives the frame
\* the largest frame z plus one, whatever the items' z are, and changes no
\* other frame and no item.
C29_IndependentZSpaces ==
    [][/\ ev'.type \in NotePresses =>
              /\ frames' = frames /\ storeFrames' = storeFrames
              /\ Len(items') = Len(items)
              /\ \A k \in 1 .. Len(items) :
                     items'[k] = IF items[k].id = ev'.target
                                 THEN [items[k] EXCEPT !.z = TopZ(items) + 1]
                                 ELSE items[k]
       /\ ev'.type \in FramePresses =>
              /\ items' = items /\ storeItems' = storeItems /\ pending' = pending
              /\ Len(frames') = Len(frames)
              /\ \A k \in 1 .. Len(frames) :
                     frames'[k] = IF frames[k].id = ev'.target
                                  THEN [frames[k] EXCEPT !.z = TopZ(frames) + 1]
                                  ELSE frames[k]]_vars

\* a note was pressed after both frames had been raised: the note's z is one
\* above the other note's and still below the frames'
C29_Witness ==
    /\ ev.type \in NotePresses
    /\ Len(items) = 2 /\ Len(frames) = 2
    /\ \E k \in 1 .. 2 : items[k].id = ev.target /\ items[k].z = TopZ(items)
    /\ TopZ(items) < TopZ(frames)
    /\ TopZ(frames) > TopZ(storeItems) + 1

\* C30: timer discipline of the save queue.  At most one flush timer is
\* running at any time, and one is running whenever a save is pending.  The
\* enqueue that finds the queue empty starts the timer with the full delay;
\* an enqueue that finds a timer running puts the item's new value in its
\* slot and leaves the timer and the time it has left as they are, as does
\* every step other than a flush and the passing of time; time passing only
\* runs the timer down, and the timer's flush leaves no timer behind.
C30_OneTimerNeverRestarted ==
    /\ [](Len(saveTimers) <= 1)
    /\ [](pending # <<>> => saveTimer /\ Len(saveTimers) = 1)
    /\ [][/\ pending = <<>> /\ pending' # <<>> => saveTimers' = <<SaveDelay>>
          /\ saveTimers # <<>> /\ ~Flushing(ev') /\ ev'.type # "tick" =>
                 /\ saveTimers' = saveTimers
                 /\ \A k \in 1 .. Len(pending') :
                        \/ Slot(pending, pending'[k].id) = <<pending'[k]>>
                        \/ /\ ev'.type \in GestureEvents
                           /\ Slot(items', pending'[k].id) = <<pending'[k]>>
                 /\ \A k \in 1 .. Len(pending) :
                        Len(Slot(pending', pending[k].id)) = 1
          /\ ev'.type = "tick" =>
                 /\ Len(saveTimers') = Len(saveTimers)
                 /\ \A k \in 1 .. Len(saveTimers) :
                        saveTimers'[k] > 0 /\ saveTimers'[k] < saveTimers[k]
          /\ ev'.type = "timer" => saveTimers # <<>> /\ saveTimers' = <<>>]_vars

\* half of the delay had passed when a second note was enqueued: two slots
\* are pending and the one timer still has the other half left
C30_Witness ==
    /\ ev.type \in GestureEvents
    /\ Len(pending) = 2
    /\ saveTimer
    /\ saveTimers = <<SaveDelay - TickMs>>

\* frs[k] contains the item's centre, no frame containing it is smaller, and
\* no earlier frame containing it has the same area
FirstSmallest(k, item, frs) ==
    /\ CenterIn(item, frs[k])
    /\ \A j \in 1 .. Len(frs) :
           CenterIn(item, frs[j]) =>
               \/ RLt(area(frs[k]), area(frs[j]))
               \/ /\ RLe(area(frs[k]), area(frs[j])) /\ RLe(area(frs[j]), area(frs[k]))
                  /\ k <= j

\* C31: among the frames that contain the item's centre and share the
\* smallest area, the resolver answers the one that comes first in the frame
\* list, in a membership query and in the assignment at the end of a drag;
\* and a query repeated on the same item and frames answers the same.
C31_TieGoesToFirstInList ==
    [][/\ ev'.type = "resolve" =>
            LET it == items[find(items, ev'.target)]
            IN  /\ \A k \in 1 .. Len(frames) :
                       FirstSmallest(k, it, frames) => resolved' = frames[k].id
                /\ (ev.type = "resolve" /\ ev.target = ev'.target) => resolved' = resolved
       /\ (/\ ev'.type \in {"pointerup", "pointercancel"}
           /\ drag # Null /\ drag.pointerId = ev'.pointerId
           /\ find(itemsRef, drag.itemId) > 0) =>
            LET it == itemsRef[find(itemsRef, drag.itemId)]
            IN  /\ Len(notes') = Len(notes)
                /\ \A k \in 1 .. Len(framesRef), n \in 1 .. Len(notes) :
                       (FirstSmallest(k, it, framesRef) /\ notes[n].id = it.noteId) =>
                           notes'[n].frameId = framesRef[k].id]_vars

\* two frames of the same area share a border, the note's centre lies on it,
\* the right-hand frame comes first in the list, and the query answered it
C31_Witness ==
    /\ ev.type = "resolve" /\ Len(frames) >= 2 /\ Len(items) = 1
    /\ CenterIn(items[1], frames[1]) /\ CenterIn(items[1], frames[2])
    /\ RLe(area(frames[1]), area(frames[2])) /\ RLe(area(frames[2]), area(frames[1]))
    /\ RLt(frames[2].x, frames[1].x)
    /\ \A j \in 1 .. Len(frames) :
           CenterIn(items[1], frames[j]) => RLe(area(frames[1]), area(frames[j]))
    /\ resolved = frames[1].id

\* the note of item it carries the id of a frame that the board no longer has:
\* the item resolved to that frame when it was put down, and the frame has
\* been deleted since
FormerMember(it) ==
    \E n \in 1 .. Len(notes) :
        /\ notes[n].id = it.noteId /\ notes[n].frameId # NullId
        /\ \A k \in 1 .. Len(frames) : frames[k].id # notes[n].frameId

\* the deletion of a frame removes that frame from the persisted frames,
\* keeps the others in order and touches neither notes nor items
NoCascade ==
    ev'.type = "delete-frame" =>
        /\ \A k \in 1 .. Len(storeFrames') : storeFrames'[k].id # ev'.target
        /\ storeFrames' = SelectSeq(storeFrames, LAMBDA f : f.id # ev'.target)
        /\ UNCHANGED <<notes, items, frames, storeNotes, storeItems, pending>>

UniqueIds(seq) == \A i, j \in 1 .. Len(seq) : seq[i].id = seq[j].id => i = j

\* the last version batch holds of id
LastOf(batch, id) == Slot(batch, id)[Len(Slot(batch, id))]

\* C33: a batched store write that the store accepts is a last-write-wins
\* upsert: afterwards every id of the batch is stored exactly once, with the
\* last version the batch holds of it; the entries that were stored keep
\* their places, and those whose id is not in the batch their values; ids
\* that were unique stay unique; and the same batch written again leaves the
\* store as the first write left it.  A write the store refuses changes
\* nothing.
C33_BatchUpsertIdempotent ==
    [][ev'.type = "batch-upsert" =>
        LET call == calls'[1]
            batch == call.payload
        IN  /\ ~call.ok => storeItems' = storeItems
            /\ call.ok =>
                 /\ \A k \in 1 .. Len(batch) :
                        Slot(storeItems', batch[k].id) = <<LastOf(batch, batch[k].id)>>
                 /\ Len(storeItems') >= Len(storeItems)
                 /\ \A k \in 1 .. Len(storeItems) :
                        /\ storeItems'[k].id = storeItems[k].id
                        /\ Slot(batch, storeItems[k].id) = <<>> =>
                               storeItems'[k] = storeItems[k]
                 /\ \A k \in 1 .. Len(storeItems) + Len(batch) :
                        (k > Len(storeItems) /\ k <= Len(storeItems')) =>
                            Slot(batch, storeItems'[k].id) # <<>>
                 /\ UniqueIds(storeItems) => UniqueIds(storeItems')
                 /\ (/\ ev.type = "batch-upsert" /\ calls[1].ok
                     /\ calls[1].payload = batch) => storeItems' = storeItems]_vars

\* a batch with two versions of an item that was not stored was written:
\* the store holds the two old items and the second version, once
C33_Witness ==
    /\ ev.type = "batch-upsert" /\ calls[1].ok
    /\ Len(calls[1].payload) = 2
    /\ calls[1].payload[1].id = 3 /\ calls[1].payload[2].id = 3
    /\ calls[1].payload[1] # calls[1].payload[2]
    /\ Len(storeItems) = 3
    /\ storeItems[3] = calls[1].payload[2]
    /\ storeItems[1].id = 2 /\ storeItems[2].id = 1

\* C34: when a board has been deleted, the store holds no notes, no frames
\* and no whiteboard items under that board's keys, also when the board was
\* the active one and geometry was still pending.
C34_DeletedBoardLeavesNoData ==
    [][ev'.type = "delete-board" =>
           /\ activeBoardId' # ev'.target
           /\ shelved'[ev'.target] = EmptyData]_vars

\* C35: when a board has been created and loaded as the active board, it has
\* no notes, no frames and no whiteboard items, in memory and in the store.
C35_NewBoardStartsEmpty ==
    [][ev'.type = "create-board" =>
           /\ activeBoardId' = ev'.target
           /\ notes' = <<>> /\ items' = <<>> /\ frames' = <<>>
           /\ storeNotes' = <<>> /\ storeItems' = <<>> /\ storeFrames' = <<>>]_vars

\* C36: frame UI is stacked above notes: the z-index every frame is rendered
\* with is greater than the z-index every note is rendered with.
C36_FramesAboveNotes ==
    \A f \in 1 .. Len(frames), i \in 1 .. Len(items) :
        frames[f].z + FrameZBase > items[i].z + NoteZBase

\* C37: the two implementations of the membership rule agree.  For every
\* item of the board, the whiteboard's findContainingFrameIdForItem answers
\* over its frame list what getLiveFrameIdForItem answers over the same list;
\* and the frame id the end of a drag assigns is the one a membership query
\* over the whiteboard's frames gives for the dragged item.
C37_ResolversAgree ==
    /\ [](\A k \in 1 .. Len(itemsRef) :
              findContainingFrameIdForItem(itemsRef[k])
                  = getLiveFrameIdForItem(itemsRef[k], framesRef))
    /\ [][(/\ ev'.type \in {"pointerup", "pointercancel"}
           /\ drag # Null /\ drag.pointerId = ev'.pointerId
           /\ find(itemsRef, drag.itemId) > 0) =>
            LET it == itemsRef[find(itemsRef, drag.itemId)]
            IN  \A n \in 1 .. Len(notes') :
                    notes'[n].id = it.noteId =>
                        notes'[n].frameId = getLiveFrameIdForItem(it, framesRef)]_vars

\* the note's centre lies on the border two frames of equal area share: the
\* end of the drag assigned the frame that comes first, and the membership
\* query that followed answered the same frame
C37_Witness ==
    /\ ev.type = "resolve" /\ Len(frames) >= 2 /\ Len(items) = 1
    /\ CenterIn(items[1], frames[1]) /\ CenterIn(items[1], frames[2])
    /\ RLe(area(frames[1]), area(frames[2])) /\ RLe(area(frames[2]), area(frames[1]))
    /\ RAdd(items[1].x, RHalf(items[1].width)) = frames[1].x
    /\ notes[1].frameId = frames[1].id
    /\ resolved = notes[1].frameId

\* C38: flushed writes stay on their board.  Every batched write names the
\* board that is active when its handler starts and carries the saves
\* pending then; a save enters the queue only for an item of the active
\* board, in a step that keeps the board; a step that changes the active
\* board leaves the queue empty and none of the saves that were pending in
\* the store of the board it activates; and a step changes the items stored
\* for a board that is not active before or after it only by deleting them.
C38_FlushedWritesStayOnBoard ==
    [][/\ \A c \in 1 .. Len(WriteCalls(calls')) :
              /\ WriteCalls(calls')[c].boardId = activeBoardId
              /\ WriteCalls(calls')[c].payload = pending
       /\ \A k \in 1 .. Len(pending') :
              Slot(pending, pending'[k].id) # <<pending'[k]>> =>
                  /\ activeBoardId' = activeBoardId
                  /\ Slot(items', pending'[k].id) = <<pending'[k]>>
       /\ activeBoardId' # activeBoardId =>
              /\ pending' = <<>>
              /\ \A k \in 1 .. Len(pending) : Slot(storeItems', pending[k].id) = <<>>
              /\ \A k \in 1 .. Len(shelved'[activeBoardId].items) :
                     LET e == shelved'[activeBoardId].items[k]
                     IN  Slot(storeItems, e.id) = <<e>> \/ Slot(pending, e.id) = <<e>>
       /\ (activeBoardId' = activeBoardId /\ Len(WriteCalls(calls')) > 0) =>
              \A k \in 1 .. Len(storeItems') :
                  LET e == storeItems'[k]
                  IN  Slot(storeItems, e.id) = <<e>> \/ Slot(pending, e.id) = <<e>>
       /\ \A b \in BoardIds :
              (b # activeBoardId /\ b # activeBoardId') =>
                  shelved'[b].items = shelved[b].items \/ shelved'[b] = EmptyData]_vars

\* after the switch from board 1 to board 2 a press queued a save, and the
\* timer wrote it to board 2: board 1's store holds its two items and not
\* the written one, board 2's store the written one and none of board 1's
C38_Witness ==
    /\ ev.type = "timer" /\ activeBoardId = 2
    /\ Len(calls) = 1 /\ calls[1].ok /\ calls[1].boardId = 2
    /\ Len(calls[1].payload) = 1
    /\ Slot(storeItems, calls[1].payload[1].id) = <<calls[1].payload[1]>>
    /\ Slot(shelved[1].items, calls[1].payload[1].id) = <<>>
    /\ Len(shelved[1].items) = 2
    /\ \A k \in 1 .. Len(shelved[1].items) :
           Slot(storeItems, shelved[1].items[k].id) = <<>>


\* C39: a move of the panning pointer changes the translate by the pointer's
\* screen delta since the cursor's previous position and keeps the scale, also
\* when a wheel zoom came between the two moves; a move that reports the same
\* position after a zoom leaves the camera of the zoom in place, so the world
\* point under the zoom cursor stays at the cursor.
PanMoveAfter(type) ==
    /\ ev.type = type
    /\ ev'.type = "pointermove"
    /\ pan # Null
    /\ pan.pointerId = ev'.pointerId

C39_PanAfterZoomKeepsCursor ==
    [][\A type \in CursorEvents :
          PanMoveAfter(type) =>
              /\ camera'.scale = camera.scale
              /\ camera'.tx = RAdd(camera.tx, R(ev'.x - ev.x))
              /\ camera'.ty = RAdd(camera.ty, R(ev'.y - ev.y))]_vars
====
